---- MODULE Spec2Model ----
(***************************************************************************)
(* chrono-probe: the input builder (src/src/input/mod.rs) and the          *)
(* measurement engine (src/src/measurements.rs) as one sequential state    *)
(* machine.  A run builds an InputSet, calls measure or measure_mut on it  *)
(* and ends with a Measurements value or with a panic.                     *)
(*                                                                         *)
(* Durations are whole nanoseconds (std::time::Duration), Instants are     *)
(* readings of one monotonic clock, f32 relative errors are the f32 values *)
(* of num / den / 2^exp.                                                   *)
(***************************************************************************)
EXTENDS Integers, Sequences, FiniteSets, TLC

\* ------------------------------------------------------------------ bounds
MaxN == 2          \* largest n given to build_with_repetitions
MaxReps == 2       \* largest repetitions given to build_with_repetitions
MaxSize == 3       \* upper end of the size range of the distribution
MaxAlgs == 2       \* longest algorithm slice given to measure
MaxTimings == 4    \* timing loops (algorithms * instances) of one run
MaxSample == 2     \* largest first non-zero clock reading, in ns
MaxVec == 4        \* longest vector given to an example algorithm
MaxValue == 2      \* largest element of such a vector
UsizeBits == 16    \* width of usize in the calls of the example algorithms
MaxDebugN == 21    \* largest n given to a builder that reports its progress
MaxCost == 1       \* longest a short call of an algorithm takes, in ns
MaxCloneCost == 1  \* longest one clone of an input takes, in ns
MaxIterations == 3 \* most iterations of one timing loop that are followed
MaxRange == 23     \* largest end of the range given to Uniform::new
MaxGen == 23       \* largest n given to generate in FixedIntervals mode
MaxPoints == 3     \* most Points of a Measurement under analysis
SmallSizes == 2    \* the small sizes of those Points are 1..SmallSizes
LargeSize == 2896  \* their large sizes are LargeSize and LargeSize + 1
MaxSlope == 2      \* largest slope of the line their times lie on, us per unit
MaxIntercept == 1  \* largest intercept of that line, in us
MaxNoise == 1      \* largest distance of the last Point above the line, in us
MaxSeriesPoints == 2 \* most Points of one series of the Measurements analysed
MaxStr == 6        \* longest byte string given to the period functions
MaxByte == 1       \* largest byte of those strings

\* ------------------------------------------------------- program constants
Samples == 100     \* get_average_resolution: for _ in 0..100, sum / 100

VARIABLES
    pc,                  \* position of the run
    kind,                \* the Input type I the run is instantiated with
    distribution,        \* the distribution: [type, min, max, lambda, gen_type]
    request,             \* arguments of the calls made: n, repetitions, ...
    lengths,             \* length_distribution of build_with_repetitions
    inputs,              \* InputSet.inputs: Vec<Vec<I>>
    dist_calls,          \* calls of Distribution::generate so far
    gen_calls,           \* calls of I::generate_input so far
    mutating,            \* TRUE: measure_mut, FALSE: measure
    algorithms,          \* the algorithm slice
    relative_error,      \* measure's argument, [num, den, exp]
    resolution,          \* let resolution = get_average_resolution()
    calibrations,        \* calls of get_average_resolution so far
    results,             \* measure: Vec<Measurement>
    output,              \* the Measurements returned, <<>> before
    ai,                  \* index of the algorithm being measured
    times,               \* get_times: Vec<Point>
    gi,                  \* index of the size group being measured
    total_time,          \* get_time_same_length: total_time
    size,                \* get_time_same_length: size
    ri,                  \* index of the instance being timed in its group
    n,                   \* get_time: call counter
    min_time_measurable, \* get_time: the exit threshold
    start,               \* get_time: Instant the elapsed time is taken from
    end,                 \* get_time: last elapsed reading
    start_input_clone,   \* get_time_mut: Instant the clone began
    end_input_clone,     \* get_time_mut: measured duration of the clone
    input_cloned,        \* get_time_mut: the clone handed to the algorithm
    clock,               \* the monotonic clock, ns since the epoch: Instants
                         \* are opaque, the epoch is the latest loop entry
    loop_began,          \* history: clock when the current timing loop began
    clone_sum,           \* history: clone durations measured in the loop
    res_used,            \* history: resolutions handed to timing loops
    last_call,           \* history: the last invocation of an algorithm
    rep_times,           \* history: what get_time returned in this group
    sum,                 \* get_average_resolution: sum
    sample,              \* get_average_resolution: iterations of 0..100 done
    measurement,         \* the Measurement under analysis: Vec<Point>
    regression,          \* what linear_regression returned: [slope, intercept]
    analysed,            \* the Measurements whose methods are called
    returned,            \* the last method called on it and what it returned
    argument,            \* the argument an example algorithm is called with
    reporting,           \* the crate is compiled with the feature "debug"
    printed              \* the lines printed with the feature "debug"

vars == <<pc, kind, distribution, request, lengths, inputs, dist_calls, gen_calls,
          mutating, algorithms, relative_error, resolution, calibrations,
          results, output, ai, times, gi, total_time, size, ri, n,
          min_time_measurable, start, end, start_input_clone,
          end_input_clone, input_cloned, clock, loop_began, clone_sum,
          res_used, last_call, rep_times, sum, sample, measurement,
          regression, analysed, returned, argument, reporting, printed>>

build_vars == <<kind, distribution, request, lengths, inputs, dist_calls,
               gen_calls>>
run_vars == <<mutating, algorithms, relative_error>>
calib_vars == <<sum, sample>>
debug_vars == <<reporting, printed>>
analysis_vars == <<measurement, regression, analysed, returned, argument,
                   debug_vars>>
loop_vars == <<n, min_time_measurable, start, end, start_input_clone,
               end_input_clone, input_cloned, loop_began, clone_sum>>

\* ----------------------------------------------------------------- helpers
RECURSIVE SumSeq(_)
SumSeq(s) ==
    IF s = <<>> THEN 0
    ELSE IF Len(s) = 1 THEN s[1]
    ELSE LET half == Len(s) \div 2
         IN  SumSeq(SubSeq(s, 1, half)) + SumSeq(SubSeq(s, half + 1, Len(s)))

NoInput == [id |-> 0, kind |-> "none", payload |-> 0, state |-> "none"]
NoCall == [target |-> "none", arg |-> NoInput, iter |-> 0]

\* ------------------------------------------------------------ Input types
\* The Input implementations of the repository: InputVec (a Vec<u32> whose
\* size is its length) and PrimeTestInput (a u32 whose size is read off the
\* width of its byte representation).  payload is what was generated: the
\* length of the vector, the number of bits of the number.
InputKinds == {"InputVec", "PrimeTestInput"}

\* I::generate_input(size, &builder); id numbers the calls.
GenerateInput(k, sz, id) ==
    [id |-> id, kind |-> k, payload |-> sz, state |-> "generated"]

\* Input::get_size(&self)
GetSize(input) ==
    IF input.kind = "InputVec" THEN input.payload   \* self.len()
    ELSE 4 * 8                         \* self.number.to_be_bytes().len() * 8

\* input.clone()
Clone(input) == input

\* (f)(&mut input), for a call that returns: a mutating algorithm leaves its
\* argument processed (sorted); (f)(&input) cannot change it.
ApplyMut(input) == [input EXCEPT !.state = "processed"]

\* ---- examples/sorting: quick_sort, one of the algorithms that measure_mut
\* is used with.
\* Indices are the usize of the code, from 0: v[k] is v[k + 1] here.
UsizeMax == 2 ^ UsizeBits - 1

\* a - b in usize where overflow is not checked (release profile).
WrappingSub(a, b) == (a - b) % (UsizeMax + 1)

\* v.swap(i, j)
Swap(v, i, j) == [v EXCEPT ![i + 1] = v[j + 1], ![j + 1] = v[i + 1]]

\* The loop `for j in low..high` of partition, from j on, and the final
\* v.swap(i, high); the result is the vector and the index returned.
RECURSIVE PartitionFrom(_, _, _, _, _)
PartitionFrom(v, pivot, i, j, high) ==
    IF j >= high THEN [v |-> Swap(v, i, high), p |-> i]
    ELSE IF v[j + 1] < pivot
    THEN PartitionFrom(Swap(v, i, j), pivot, i + 1, j + 1, high)
    ELSE PartitionFrom(v, pivot, i, j + 1, high)

\* partition(v, low, high), for high < v.len()
Partition(v, low, high) == PartitionFrom(v, v[high + 1], low, low, high)

\* quick_sort_rec(v, low, high): the vector as the call leaves it, and whether
\* it panicked.  v[high] in partition panics for high >= v.len(); p - 1
\* panics for p = 0 where overflow is checked (checks, the dev profile) and
\* wraps to usize::MAX where it is not.
RECURSIVE QuickSortRec(_, _, _, _)
QuickSortRec(v, low, high, checks) ==
    IF ~(low < high) THEN [panic |-> FALSE, value |-> v]
    ELSE IF high >= Len(v) THEN [panic |-> TRUE, value |-> v]
    ELSE LET part == Partition(v, low, high)
             left == IF part.p = 0 /\ checks
                     THEN [panic |-> TRUE, value |-> part.v]
                     ELSE QuickSortRec(part.v, low, WrappingSub(part.p, 1),
                                       checks)
         IN  IF left.panic THEN left
             ELSE QuickSortRec(left.value, part.p + 1, high, checks)

\* quick_sort(v): quick_sort_rec(v, 0, v.len() - 1)
QuickSort(v, checks) ==
    IF Len(v) = 0 /\ checks THEN [panic |-> TRUE, value |-> v]
    ELSE QuickSortRec(v, 0, WrappingSub(Len(v), 1), checks)

\* quick_sort_input(&mut input) on an InputVec of the length len, of which
\* the model holds the length alone: whether the call panics, for the
\* contents the vector can have and the profiles of the build.
QuickSortInputPanics(len) ==
    { QuickSort(v, checks).panic :
        v \in [1..len -> 0..MaxValue], checks \in BOOLEAN }

\* The same for the lengths of the model, worked out once.
PanicsByLength == [len \in 0..MaxSize |-> QuickSortInputPanics(len)]

\* Whether (f)(&mut input) panics, f being merge_sort_input, which returns on
\* every vector, or quick_sort_input.
AlgorithmPanics(input) ==
    IF input.kind # "InputVec" THEN {FALSE}
    ELSE IF input.payload \in DOMAIN PanicsByLength
    THEN {FALSE} \cup PanicsByLength[input.payload]
    ELSE {FALSE} \cup QuickSortInputPanics(input.payload)

\* (f)(input) in get_time, for an Alg: Fn(&I) -> O: the call returns or it
\* panics, as binary_search_input does on a SearchInput whose target is
\* below the first element of its vector.
CallPanics(input) == BOOLEAN

\* ----------------------------------------------------------- distribution
GenTypes == {"FixedIntervals", "Random"}

\* Denominator of the fractions the model draws for thread_rng().gen::<f64>(),
\* which is uniform in [0, 1) and a multiple of a power of two.
UDen == 2 ^ MaxN

\* ---- f64 arithmetic.  A non-negative finite f64 is [int, frac]: the value
\* int + 0.frac, frac being FracLimbs digits in base Limb, the most
\* significant first, with at most Mantissa significant bits in all.
Mantissa == 53     \* f64::MANTISSA_DIGITS

RECURSIVE BitLen(_)
BitLen(x) == IF x = 0 THEN 0 ELSE 1 + BitLen(x \div 2)

Limb == 2 ^ 12
LimbBits == BitLen(Limb) - 1
FracLimbs == Mantissa \div LimbBits + 2
FracBits == FracLimbs * LimbBits
ZeroFrac == [k \in 1..FracLimbs |-> 0]

\* The j-th bit of the fraction f after the binary point.
FracBit(f, j) ==
    LET k == (j + LimbBits - 1) \div LimbBits
    IN  (f[k] \div (2 ^ (k * LimbBits - j))) % 2

\* The number of zero bits before the first one bit of a non-zero fraction.
LeadingZeros(f) ==
    (CHOOSE j \in 1..FracBits :
        FracBit(f, j) = 1 /\ \A k \in 1..(j - 1) : FracBit(f, k) = 0) - 1

\* The first cnt digits of r / m after the point (r < m), and the remainder.
RECURSIVE DivLimbs(_, _, _)
DivLimbs(r, m, cnt) ==
    IF cnt = 0 THEN [limbs |-> <<>>, rem |-> r]
    ELSE LET rest == DivLimbs((r * Limb) % m, m, cnt - 1)
         IN  [limbs |-> <<(r * Limb) \div m>> \o rest.limbs, rem |-> rest.rem]

\* b * 0.limbs: the digits of the fraction and the carry into the integer.
RECURSIVE MulLimbs(_, _)
MulLimbs(b, limbs) ==
    IF limbs = <<>> THEN [carry |-> 0, limbs |-> <<>>]
    ELSE LET low == MulLimbs(b, Tail(limbs))
             t == b * Head(limbs) + low.carry
         IN  [carry |-> t \div Limb, limbs |-> <<t % Limb>> \o low.limbs]

\* The fraction f cut after its p-th bit.
Truncate(f, p) ==
    [k \in 1..FracLimbs |->
        IF k * LimbBits <= p THEN f[k]
        ELSE IF (k - 1) * LimbBits >= p THEN 0
        ELSE f[k] - (f[k] % (2 ^ (k * LimbBits - p)))]

\* int + 0.f + 2^-p, for f cut after its p-th bit: the carry runs up to the
\* last zero bit.
Incr(int, f, p) ==
    IF \A j \in 1..p : FracBit(f, j) = 1
    THEN [int |-> int + 1, frac |-> ZeroFrac]
    ELSE LET q == CHOOSE j \in 1..p :
                    FracBit(f, j) = 0 /\ \A k \in (j + 1)..p : FracBit(f, k) = 1
             kq == (q + LimbBits - 1) \div LimbBits
             w == 2 ^ (kq * LimbBits - q)
         IN  [int |-> int,
              frac |-> [k \in 1..FracLimbs |->
                          IF k < kq THEN f[k]
                          ELSE IF k = kq THEN f[k] - (f[k] % w) + w
                          ELSE 0]]

\* Round to nearest, ties to even, keeping p bits of the fraction; sticky
\* tells that the value has non-zero bits beyond the fraction.
RoundAt(int, f, p, sticky) ==
    LET half == FracBit(f, p + 1) = 1
        beyond == sticky \/ \E j \in (p + 2)..FracBits : FracBit(f, j) = 1
        odd == IF p = 0 THEN int % 2 = 1 ELSE FracBit(f, p) = 1
    IN  IF half /\ (beyond \/ odd) THEN Incr(int, Truncate(f, p), p)
        ELSE [int |-> int, frac |-> Truncate(f, p)]

\* The f64 nearest to int + 0.f.
Round53(int, f, sticky) ==
    IF int = 0 /\ f = ZeroFrac THEN [int |-> 0, frac |-> ZeroFrac]
    ELSE LET p == IF int > 0 THEN Mantissa - BitLen(int)
                  ELSE Mantissa + LeadingZeros(f)
         IN  IF p >= FracBits THEN [int |-> int, frac |-> f]
             ELSE RoundAt(int, f, p, sticky)

\* i as f64 / m as f64, for i >= 0 and m > 0.
F64Div(i, m) ==
    LET q == DivLimbs(i % m, m, FracLimbs)
    IN  Round53(i \div m, q.limbs, q.rem # 0)

\* b as f64 * x
F64MulInt(b, x) ==
    LET p == MulLimbs(b, x.frac)
    IN  Round53(b * x.int + p.carry, p.limbs, FALSE)

\* a as f64 + x
F64AddInt(a, x) == Round53(a + x.int, x.frac, FALSE)

\* ---- f32 arithmetic.  An f32 is [class, neg, int, frac]: a "nan", an "inf"
\* of the sign neg, or the "finite" value int + 0.frac of the sign neg, with
\* at most F32Mantissa significant bits in all; a zero has neg = FALSE, the
\* two zeros behaving alike in every operation used here.
F32Mantissa == 24  \* f32::MANTISSA_DIGITS

\* The integer k >= 2^F32Mantissa rounded to F32Mantissa significant bits,
\* nearest, ties to even; sticky tells that the value has a fraction as well.
RoundInt(k, sticky) ==
    LET unit == 2 ^ (BitLen(k) - F32Mantissa)
        low == k % unit
        base == k - low
        half == unit \div 2
        up == \/ low > half
              \/ low = half /\ (sticky \/ (base \div unit) % 2 = 1)
    IN  IF up THEN base + unit ELSE base

\* The magnitude of the f32 nearest to int + 0.f.
Round24(int, f, sticky) ==
    IF int = 0 /\ f = ZeroFrac THEN [int |-> 0, frac |-> ZeroFrac]
    ELSE IF BitLen(int) > F32Mantissa
    THEN [int |-> RoundInt(int, sticky \/ f # ZeroFrac), frac |-> ZeroFrac]
    ELSE LET p == IF int > 0 THEN F32Mantissa - BitLen(int)
                  ELSE F32Mantissa + LeadingZeros(f)
         IN  IF p >= FracBits THEN [int |-> int, frac |-> f]
             ELSE RoundAt(int, f, p, sticky)

F32Nan == [class |-> "nan", neg |-> FALSE, int |-> 0, frac |-> ZeroFrac]
F32Inf(neg) == [class |-> "inf", neg |-> neg, int |-> 0, frac |-> ZeroFrac]
F32Finite(neg, m) ==
    [class |-> "finite", neg |-> neg /\ (m.int # 0 \/ m.frac # ZeroFrac),
     int |-> m.int, frac |-> m.frac]

\* The f32 nearest to the integer k, itself an integer: `k as f32`, and the
\* result of +, - and * on f32 operands that are integers, k being the exact
\* result.
F32Int(k) ==
    IF k < 0 THEN 0 - Round24(0 - k, ZeroFrac, FALSE).int
    ELSE Round24(k, ZeroFrac, FALSE).int

Magnitude(k) == IF k < 0 THEN 0 - k ELSE k

\* `k as f32` as an f32 record.
F32Of(k) == F32Finite(k < 0, Round24(Magnitude(k), ZeroFrac, FALSE))

\* The first cnt bits of r / m after the point (r < m), as a number, and the
\* remainder.
RECURSIVE DivBits(_, _, _)
DivBits(r, m, cnt) ==
    IF cnt = 0 THEN [quot |-> 0, rem |-> r]
    ELSE LET bit == IF 2 * r >= m THEN 1 ELSE 0
             rest == DivBits(2 * r - bit * m, m, cnt - 1)
         IN  [quot |-> bit * 2 ^ (cnt - 1) + rest.quot, rem |-> rest.rem]

\* DivLimbs for an m too large for r * Limb: digit by digit, bit by bit.
RECURSIVE DivLimbsLong(_, _, _)
DivLimbsLong(r, m, cnt) ==
    IF cnt = 0 THEN [limbs |-> <<>>, rem |-> r]
    ELSE LET digit == DivBits(r, m, LimbBits)
             rest == DivLimbsLong(digit.rem, m, cnt - 1)
         IN  [limbs |-> <<digit.quot>> \o rest.limbs, rem |-> rest.rem]

\* num / den of two f32 that are integers.
F32DivInt(num, den) ==
    IF den = 0
    THEN IF num = 0 THEN F32Nan ELSE F32Inf(num < 0)
    ELSE LET a == Magnitude(num)
             b == Magnitude(den)
             q == DivLimbsLong(a % b, b, FracLimbs)
         IN  F32Finite((num < 0) # (den < 0),
                       Round24(a \div b, q.limbs, q.rem # 0))

\* x * k, for an f32 k that is an integer >= 0.
F32MulInt(x, k) ==
    IF x.class = "nan" \/ (x.class = "inf" /\ k = 0) THEN F32Nan
    ELSE IF x.class = "inf" THEN x
    ELSE LET p == MulLimbs(k, x.frac)
         IN  F32Finite(x.neg, Round24(k * x.int + p.carry, p.limbs, FALSE))

\* 1 - 0.f, for a fraction f that is not zero.
Complement(f) ==
    LET t == CHOOSE k \in 1..FracLimbs :
                 f[k] # 0 /\ \A j \in (k + 1)..FracLimbs : f[j] = 0
    IN  [k \in 1..FracLimbs |->
            IF k < t THEN Limb - 1 - f[k]
            ELSE IF k = t THEN Limb - f[k]
            ELSE 0]

\* k - x, for an f32 k that is an integer >= 0.
F32IntSub(k, x) ==
    IF x.class = "nan" THEN F32Nan
    ELSE IF x.class = "inf" THEN F32Inf(~x.neg)
    ELSE IF x.neg THEN F32Finite(FALSE, Round24(k + x.int, x.frac, FALSE))
    ELSE IF x.int >= k
    THEN F32Finite(TRUE, Round24(x.int - k, x.frac, FALSE))
    ELSE IF x.frac = ZeroFrac
    THEN F32Finite(FALSE, Round24(k - x.int, ZeroFrac, FALSE))
    ELSE F32Finite(FALSE, Round24(k - x.int - 1, Complement(x.frac), FALSE))

\* The digits of (r + 0.limbs) / m after the point (r < m), and the
\* remainder.
RECURSIVE DivFrac(_, _, _)
DivFrac(r, limbs, m) ==
    IF limbs = <<>> THEN [limbs |-> <<>>, rem |-> r]
    ELSE LET t == r * Limb + Head(limbs)
             rest == DivFrac(t % m, Tail(limbs), m)
         IN  [limbs |-> <<t \div m>> \o rest.limbs, rem |-> rest.rem]

\* x / k, for an f32 k that is an integer >= 0.
F32DivByInt(x, k) ==
    IF x.class = "nan" THEN F32Nan
    ELSE IF x.class = "inf" THEN x
    ELSE IF k = 0
    THEN IF x.int = 0 /\ x.frac = ZeroFrac THEN F32Nan ELSE F32Inf(x.neg)
    ELSE LET q == DivFrac(x.int % k, x.frac, k)
         IN  F32Finite(x.neg, Round24(x.int \div k, q.limbs, q.rem # 0))

\* The position of the last one bit of the fraction f, 0 for a zero fraction.
TrailingBit(f) ==
    IF f = ZeroFrac THEN 0
    ELSE CHOOSE j \in 1..FracBits :
            FracBit(f, j) = 1 /\ \A k \in (j + 1)..FracBits : FracBit(f, k) = 0

\* The first s bits of the fraction f, as a number.
RECURSIVE FracTop(_, _)
FracTop(f, s) == IF s = 0 THEN 0 ELSE 2 * FracTop(f, s - 1) + FracBit(f, s)

\* The value of a finite f32 x >= 0: num / 2^exp, exp the least possible.
F32Value(x) ==
    LET s == TrailingBit(x.frac)
    IN  [num |-> IF x.int = 0 THEN FracTop(x.frac, s)
                 ELSE x.int * 2 ^ s + FracTop(x.frac, s),
         exp |-> s]

\* 1.0 / x, for a finite f32 x > 0: x is num / 2^exp, and a power of two
\* scales a quotient without rounding.  (x >= 2^-26, so that the integers
\* stay within 31 bits.)
F32Recip(x) ==
    LET v == F32Value(x)
        lo == IF v.exp > 30 THEN 30 ELSE v.exp
    IN  F32MulInt(F32DivInt(2 ^ lo, v.num), 2 ^ (v.exp - lo))

\* x + k, for a finite f32 x >= 0 and an f32 k that is an integer >= 0.
F32AddInt(k, x) == F32Finite(FALSE, Round24(k + x.int, x.frac, FALSE))

\* x as u32, for a finite x >= 0 below 2^31: the cast truncates toward zero.
\* (From u32::MAX on the cast saturates; these values are beyond the
\* integers of the model.)
AsU32(x) == x.int

\* x as usize, for a finite x >= 0
AsUsize(x) == x.int

\* Mutant: the end of the range is taken for its width.
UniformInverseCdf_EndAsWidth(d, unum, uden) ==
    AsUsize(F64AddInt(d.min, F64MulInt(d.max, F64Div(unum, uden))))

\* Uniform::inverse_cdf followed by `x as usize`: a + b * u in f64, then
\* truncated; u is the f64 unum as f64 / uden as f64.
UniformInverseCdf(d, unum, uden) ==
    AsUsize(F64AddInt(d.min, F64MulInt(d.max - d.min, F64Div(unum, uden))))

RECURSIVE Pow(_, _)
Pow(b, e) == IF e = 0 THEN 1 ELSE b * Pow(b, e - 1)

\* ceil(log2(q)), for q >= 1
Log2Upper(q) == BitLen(q - 1)

\* The largest k of reached, the values of min..max that the value computed
\* reaches: a downward closed set that holds min; where the value is exactly
\* k (k in ties), the last bit of the
\* library's ln / exp / powf decides between k - 1 and k: ulp = 1 is the
\* result that falls short.
FloorBy(reached, ties, ulp) ==
    LET k == CHOOSE v \in reached : v + 1 \notin reached
    IN  IF k \in ties THEN k - ulp ELSE k

\* ---- Exponential.  lambda is the f64 c * ln(q) / d, kept as [c, q, d]:
\* Exponential::new stores ln(end / start) / (end - start), the quotient
\* end / start being the integer one.
NoLambda == [c |-> 0, q |-> 1, d |-> 1]
DefaultLambda(lo, hi) == [c |-> 1, q |-> hi \div lo, d |-> hi - lo]

LambdaIsNaN(l) == l.d = 0 /\ (l.c = 0 \/ l.q = 1)          \* 0.0 / 0.0
LambdaIsZero(l) == l.d > 0 /\ (l.c = 0 \/ l.q = 1)
LambdaIsPositive(l) == l.d > 0 /\ l.c > 0 /\ l.q > 1

MaxExp == 1024     \* f64::MAX_EXP

\* 2.0_f64.ln(): 0x3FE62E42FEFA39EF, the f64 nearest to ln 2.
F64Ln2 == [int |-> 0, frac |-> <<2839, 535, 3965, 463, 1920, 0>>]

\* The fraction f is less than the fraction g.
FracLess(f, g) ==
    \E k \in 1..FracLimbs : f[k] < g[k] /\ \A j \in 1..(k - 1) : f[j] = g[j]

\* x < y, for two f64
F64Less(x, y) == x.int < y.int \/ (x.int = y.int /\ FracLess(x.frac, y.frac))

\* y - x, for two f64 with y >= x: the digits are subtracted, each with the
\* borrow of the digits after it.
F64Sub(y, x) ==
    LET borrow(k) ==
            IF \E j \in (k + 1)..FracLimbs :
                  /\ y.frac[j] < x.frac[j]
                  /\ \A t \in (k + 1)..(j - 1) : y.frac[t] = x.frac[t]
            THEN 1 ELSE 0
    IN  Round53(y.int - x.int - borrow(0),
                [k \in 1..FracLimbs |->
                    (y.frac[k] - x.frac[k] - borrow(k)) % Limb],
                FALSE)

\* The f64 lambda of [c, q, d] with q = 2 and d = 1: c as f64 * 2.0_f64.ln().
LambdaF64(l) == F64MulInt(l.c, F64Ln2)

\* y - x < f64::MAX_EXP as f64 * 2.0_f64.ln(), for x = lambda * min and
\* y = lambda * max.  For a lambda c * ln 2 the products and the difference
\* are computed in f64, each rounded to nearest.  For the lambda that
\* Exponential::new computes y - x is ln(q) but for the rounding, and the
\* test is that of the exact values: c * (max - min) * log2(q) < 1024 * d.
ExactFormulaApplies(d) ==
    IF d.lambda.q = 2 /\ d.lambda.d = 1 /\ d.lambda.c > 0
    THEN LET lambda == LambdaF64(d.lambda)
             x == F64MulInt(d.min, lambda)
             y == F64MulInt(d.max, lambda)
         IN  F64Less(F64Sub(y, x), F64MulInt(MaxExp, F64Ln2))
    ELSE d.lambda.c * (d.max - d.min) * Log2Upper(d.lambda.q)
            < MaxExp * d.lambda.d

\* (y - ln((1 - u) * exp(y - x) + u)) / lambda as usize, u = i / m in (0, 1)
\* and lambda > 0.  The value is >= k exactly when
\* (1 - u) * q^e + u <= q^(c * (max - k) / d), e = c * (max - min) / d being an
\* integer for the lambdas of the model (d = max - min, or d = 1).  For d = 1
\* that is i <= q^(c * (max - k)) * (m - (m - i) * q^(c * (k - min))), which
\* keeps the powers that matter within the integers: q^f with f > 30 is
\* beyond every m and every i of the model.
ExponentialExactFormula(d, i, m, ulp) ==
    LET l == d.lambda
        a == (m - i) * Pow(l.q, (l.c * (d.max - d.min)) \div l.d) + i
        lhs == Pow(a, l.d)
        rhs(k) == Pow(m, l.d) * Pow(l.q, l.c * (d.max - k))
        low(k) == l.c * (k - d.min)
        high(k) == l.c * (d.max - k)
        left(k) == m - (m - i) * Pow(l.q, low(k))
        reach(k) ==
            IF l.d # 1 THEN lhs <= rhs(k)
            ELSE /\ low(k) <= 30
                 /\ left(k) >= 1
                 /\ \/ high(k) > 30
                    \/ Pow(l.q, high(k)) >= i
                    \/ i <= Pow(l.q, high(k)) * left(k)
        tie(k) ==
            IF l.d # 1 THEN lhs = rhs(k)
            ELSE /\ low(k) <= 30
                 /\ left(k) >= 1
                 /\ high(k) <= 30
                 /\ Pow(l.q, high(k)) <= i
                 /\ i = Pow(l.q, high(k)) * left(k)
    IN  FloorBy({k \in d.min..d.max : reach(k)},
                {k \in d.min..d.max : tie(k)}, ulp)

\* (x - ln(1 - u)) / lambda as usize, the branch taken when y - x is at least
\* 1024 * ln 2: y - x > ln(1 / (1 - u)) holds there for every f64 u < 1, as
\* 1 - u >= 2^-53.  The value is >= min + j exactly when
\* (m / (m - i))^d >= q^(c * j); q^(c * j) is beyond every (m / (m - i))^d of
\* the model once c * j > 30.
ExponentialApproxFormula(d, i, m, ulp) ==
    LET l == d.lambda
        reach(k) == \/ k = d.min
                    \/ /\ l.c * (k - d.min) <= 30
                       /\ Pow(m, l.d) >=
                            Pow(l.q, l.c * (k - d.min)) * Pow(m - i, l.d)
        tie(k) == /\ k > d.min
                  /\ l.c * (k - d.min) <= 30
                  /\ Pow(m, l.d) = Pow(l.q, l.c * (k - d.min)) * Pow(m - i, l.d)
    IN  FloorBy({k \in d.min..d.max : reach(k)},
                {k \in d.min..d.max : tie(k)}, ulp)

\* Mutant: u = 0 and u = 1 go through the formulas like every other u.
ExponentialInverseCdf_NoEndpoints(d, i, m, ulp) ==
    IF LambdaIsNaN(d.lambda) \/ LambdaIsZero(d.lambda) THEN 0
    ELSE IF ExactFormulaApplies(d) THEN ExponentialExactFormula(d, i, m, ulp)
    ELSE ExponentialApproxFormula(d, i, m, ulp)

\* Exponential::inverse_cdf followed by `x as usize`, u being i as f64 /
\* m as f64.  With lambda = 0.0 the exact formula computes
\* 0.0 - ((1 - u) * 1.0 + u).ln() = 0.0 and 0.0 / 0.0; with lambda NaN every
\* comparison is false and z is NaN; NaN as usize is 0.
ExponentialInverseCdf(d, i, m, ulp) ==
    IF i = m THEN d.max
    ELSE IF i = 0 THEN d.min
    ELSE IF LambdaIsNaN(d.lambda) \/ LambdaIsZero(d.lambda) THEN 0
    ELSE IF ExactFormulaApplies(d) THEN ExponentialExactFormula(d, i, m, ulp)
    ELSE ExponentialApproxFormula(d, i, m, ulp)

\* ---- Reciprocal::inverse_cdf followed by `x as usize`:
\* (end as f64 / start as f64).powf(u) * start as f64.  powf(_, 0.0) is 1.0 and
\* powf(x, 1.0) is x; with start = 0 the product is 0.0 or NaN.  For u = i / m
\* inside (0, 1) the value is >= k exactly when max^i * min^(m - i) >= k^m.
ReciprocalInverseCdf(d, i, m, ulp) ==
    IF d.min = 0 THEN 0
    ELSE IF i = 0 \/ d.min = d.max THEN d.min
    ELSE IF i = m THEN AsUsize(F64MulInt(d.min, F64Div(d.max, d.min)))
    ELSE LET lhs == Pow(d.max, i) * Pow(d.min, m - i)
             reach(k) == lhs >= Pow(k, m)
             tie(k) == lhs = Pow(k, m)
         IN  FloorBy({k \in d.min..d.max : reach(k)},
                {k \in d.min..d.max : tie(k)}, ulp)

DistributionTypes == {"Uniform", "Exponential", "Reciprocal"}

\* self.inverse_cdf(u) as usize
InverseCdf(d, unum, uden, ulp) ==
    CASE d.type = "Uniform" -> UniformInverseCdf(d, unum, uden)
      [] d.type = "Exponential" -> ExponentialInverseCdf(d, unum, uden, ulp)
      [] d.type = "Reciprocal" -> ReciprocalInverseCdf(d, unum, uden, ulp)

\* What the model draws for one size: the numerator of gen::<f64>() in
\* Random mode, and the last bit of the library functions where it decides.
Draws(d) ==
    [u : IF d.gen_type = "Random" THEN 0..(UDen - 1) ELSE {0},
     ulp : IF d.type = "Uniform" THEN {0} ELSE {0, 1}]

\* generate(n) of impl Distribution for T: ProbabilityDistribution, n > 0;
\* rnd[j] is what is drawn for index j - 1.
Generate(d, cnt, rnd) ==
    [j \in 1..cnt |->
        IF d.gen_type = "FixedIntervals"
        THEN IF cnt # 1 THEN InverseCdf(d, j - 1, cnt - 1, rnd[j].ulp)
                        ELSE InverseCdf(d, 0, 1, rnd[j].ulp)
        ELSE InverseCdf(d, rnd[j].u, UDen, rnd[j].ulp)]

\* ---------------------------------------------------------- input builder
\* Mutant: one instance is generated per size and pushed repetitions times.
InputsWithSameSize_Shared(k, sz, j, repetitions) ==
    [r \in 1..repetitions |-> GenerateInput(k, sz, (j - 1) * repetitions + 1)]

\* The inner loop of build_with_repetitions for the j-th size: repetitions
\* calls of generate_input with that size.
InputsWithSameSize(k, sz, j, repetitions) ==
    [r \in 1..repetitions |-> GenerateInput(k, sz, (j - 1) * repetitions + r)]

\* Mutant: the groups are pushed in the reverse of the order of the sizes.
BuildInputs_Reversed(k, lens, repetitions) ==
    [j \in 1..Len(lens) |->
        InputsWithSameSize(k, lens[Len(lens) + 1 - j], j, repetitions)]

\* The outer loop of build_with_repetitions: one group per size, pushed in
\* the order of length_distribution.
BuildInputs(k, lens, repetitions) ==
    [j \in 1..Len(lens) |-> InputsWithSameSize(k, lens[j], j, repetitions)]

\* Mutant: only n is checked.
AssertBuild_OnlyN(cnt, repetitions) == cnt > 0

\* assert!(n > 0, ...); assert!(repetitions > 0, ...);
AssertBuild(cnt, repetitions) == cnt > 0 /\ repetitions > 0

\* InputBuilder::build_with_repetitions(n, repetitions); build(n) is the
\* call with repetitions = 1.
build_with_repetitions ==
    /\ pc = "start"
    /\ \E cnt \in 0..MaxN, repetitions \in 0..MaxReps :
         /\ request' = [n |-> cnt, repetitions |-> repetitions]
         /\ IF ~AssertBuild(cnt, repetitions)
            THEN /\ pc' = "build_panic"
                 /\ UNCHANGED <<lengths, inputs, dist_calls, gen_calls>>
            ELSE \E rnd \in [1..cnt -> Draws(distribution)] :
                 \* let length_distribution = self.distribution.generate(n);
                 /\ lengths' = Generate(distribution, cnt, rnd)
                 /\ dist_calls' = dist_calls + 1
                 /\ inputs' = BuildInputs(kind, lengths', repetitions)
                 /\ gen_calls' = gen_calls + Len(lengths') * repetitions
                 /\ pc' = "built"
    /\ UNCHANGED <<kind, distribution, run_vars, resolution, calibrations,
                   results, output, ai, times, gi, total_time, size, ri,
                   loop_vars, clock, res_used, last_call, rep_times>>
    /\ UNCHANGED <<calib_vars, analysis_vars>>

\* ------------------------------------------------------- clock calibrator
\* Mutant: the first reading is returned, zero or not.
ReadingReturned_Any(reading) == TRUE

\* if end != Duration::ZERO { return end; }
ReadingReturned(reading) == reading # 0

\* get_resolution(): the first reading of start.elapsed() that is not zero.
RECURSIVE GetResolution(_)
GetResolution(readings) ==
    IF ReadingReturned(Head(readings)) THEN Head(readings)
    ELSE GetResolution(Tail(readings))

\* sum / 100
DivideSum(total) == total \div Samples

\* get_average_resolution(): sum of Samples calls of get_resolution, / 100.
GetAverageResolution(samples) == DivideSum(SumSeq(samples))

\* The clock readings of a calibration the model draws: the first k samples
\* read a ns, the others b ns, each after one reading of zero.
SampleRuns ==
    { [i \in 1..Samples |-> GetResolution(<<0, IF i <= k THEN a ELSE b>>)] :
        a \in 1..MaxSample, b \in 1..MaxSample, k \in {0, Samples \div 2} }

\* What a calibration returns and the time it takes, for each of them.
CalibrationRuns ==
    { [resolution |-> GetAverageResolution(samples),
       elapsed |-> SumSeq(samples)] : samples \in SampleRuns }

\* ---------------------------------------------------------- timing engine
\* An f32 relative error is [num, den, exp]: the f32
\* num as f32 / den as f32 / 2^exp, the division by the power of two being
\* exact.
Ratio(num, den) == [num |-> num, den |-> den, exp |-> 0]

\* f32::from_bits(0x337ff004) = (2^24 - 4092) / 2^48, about 5.959e-8: a
\* relative error whose reciprocal, 2^24 + 4092.998, is beyond the integers
\* an f32 holds exactly.
SmallRelativeError == [num |-> 16773124, den |-> 16777216, exp |-> 24]

\* The relative errors the model hands to measure; 1.0 / 3.0 is one whose
\* reciprocal is rounded (to 3.0, from 2.9999999).
RelativeErrors ==
    { Ratio(-1, 1), Ratio(0, 1), Ratio(1, 1), Ratio(2, 1), Ratio(1, 3),
      SmallRelativeError }

\* The algorithm slices the model hands to measure: algorithm k of the slice
\* is named by its index k.
AlgorithmLists == { [k \in 1..len |-> k] : len \in 0..MaxAlgs }

\* x / 2^e, for a finite f32 x that is no smaller than 2^(e - 126).
RECURSIVE F32Halve(_, _)
F32Halve(x, e) == IF e = 0 THEN x ELSE F32Halve(F32DivByInt(x, 2), e - 1)

\* The f32 that measure receives for [num, den, exp].
RelativeErrorF32(re) == F32Halve(F32DivInt(re.num, re.den), re.exp)

\* ((1.0 / relative_error) + 1.0) as u32, for a relative_error > 0: the
\* quotient and the sum are f32, each rounded to nearest, and the cast
\* truncates toward zero.
Factor(re) == AsU32(F32AddInt(1, F32Recip(RelativeErrorF32(re))))

\* The same for the relative errors of the model, worked out once.
Factors == [re \in {r \in RelativeErrors : r.num > 0} |-> Factor(re)]

\* let min_time_measurable = resolution * ((1.0 / relative_error) + 1.0) as u32;
\* `as` binds tighter than `*`: Duration * u32.  (Duration * u32 panics when
\* the product overflows a Duration: beyond the integers of the model.)
MinTimeMeasurable(res, re) ==
    res * (IF re \in DOMAIN Factors THEN Factors[re] ELSE Factor(re))

\* get_algorithm_name(f): the last path segment of type_name::<Alg>(); Alg is
\* the one element type of the slice.
GetAlgorithmName(f) == "Alg"

\* Mutant: the assert lets zero through.
AssertRelativeError_NonNegative(re) == re.num >= 0

\* assert!(relative_error > 0.0, "Relative error must be positive")
AssertRelativeError(re) == re.num > 0

\* ---- the feature "debug": build_with_repetitions, get_times and
\* get_times_mut print their progress, measure and measure_mut the algorithm
\* they are at.
ProgressSteps == 20  \* if _j % (n / 20) == 0

\* n / 20
ReportEvery(cnt) == cnt \div ProgressSteps

\* _j % (n / 20) panics when n / 20 is zero: "attempt to calculate the
\* remainder with a divisor of zero".
ReportPanics(cnt) == ReportEvery(cnt) = 0

\* println!("{}%", _j * 100 / n) for every _j of 0..n that n / 20 divides.
Progress(cnt) ==
    LET due == SelectSeq([k \in 1..cnt |-> k - 1],
                         LAMBDA j : j % ReportEvery(cnt) = 0)
    IN  [k \in 1..Len(due) |-> (due[k] * 100) \div cnt]

\* The line println!("{}%", ...) prints.
PercentLine(p) == [line |-> "percent", name |-> "", value |-> p, of |-> 100]

\* The line println!("\n\nProcessing {} ({}/{})...\n", name, k, len) prints.
ProcessingLine(name, k, len) ==
    [line |-> "processing", name |-> name, value |-> k, of |-> len]

\* The lines of Progress(cnt).
ProgressLines(cnt) ==
    [k \in 1..Len(Progress(cnt)) |-> PercentLine(Progress(cnt)[k])]

\* The line println!("Generating inputs...\n") prints.
GeneratingLine == [line |-> "generating", name |-> "", value |-> 0, of |-> 0]

\* measure / measure_mut up to the assert on relative_error.
MeasureEnter(m) ==
    /\ pc = "built"
    /\ mutating' = m
    /\ \E algs \in AlgorithmLists, re \in RelativeErrors :
         /\ Len(algs) * gen_calls <= MaxTimings
         /\ algorithms' = algs
         /\ relative_error' = re
         /\ pc' = IF AssertRelativeError(re) THEN "calibrate" ELSE "measure_panic"
    /\ UNCHANGED <<build_vars, resolution, calibrations, results, output, ai,
                   times, gi, total_time, size, ri, loop_vars, clock,
                   res_used, last_call, rep_times>>
    /\ UNCHANGED <<calib_vars, analysis_vars>>

measure == MeasureEnter(FALSE)

measure_mut == MeasureEnter(TRUE)

\* let resolution = get_average_resolution(); let mut results = Vec::...
get_average_resolution ==
    /\ pc = "calibrate"
    /\ \E run \in CalibrationRuns :
         /\ resolution' = run.resolution
         /\ clock' = clock + run.elapsed
    /\ calibrations' = calibrations + 1
    /\ results' = <<>>
    /\ ai' = 1
    /\ pc' = "algorithms"
    /\ UNCHANGED <<build_vars, run_vars, output, times, gi, total_time, size,
                   ri, loop_vars, res_used, last_call, rep_times>>
    /\ UNCHANGED <<calib_vars, analysis_vars>>

\* get_times / get_times_mut is entered for the next algorithm of the slice;
\* with the feature "debug" measure / measure_mut prints which one it is.
get_times ==
    /\ pc = "algorithms"
    /\ ai <= Len(algorithms)
    /\ printed' = IF reporting
                  THEN Append(printed,
                              ProcessingLine(GetAlgorithmName(algorithms[ai]),
                                             ai, Len(algorithms)))
                  ELSE printed
    /\ times' = <<>>
    /\ gi' = 1
    /\ pc' = "groups"
    /\ UNCHANGED <<build_vars, run_vars, resolution, calibrations, results,
                   output, ai, total_time, size, ri, loop_vars, clock,
                   res_used, last_call, rep_times>>
    /\ UNCHANGED <<calib_vars, measurement, regression, analysed, returned,
                   argument, reporting>>

\* let size = inputs[0].get_size();
GroupSize(group) == GetSize(group[1])

\* get_time_same_length[_mut] is entered for the next group of the InputSet.
get_time_same_length ==
    /\ pc = "groups"
    /\ gi <= Len(inputs)
    /\ total_time' = 0
    /\ size' = GroupSize(inputs[gi])
    /\ ri' = 1
    /\ rep_times' = <<>>
    /\ pc' = "instances"
    /\ UNCHANGED <<build_vars, run_vars, resolution, calibrations, results,
                   output, ai, times, gi, loop_vars, clock, res_used,
                   last_call>>
    /\ UNCHANGED <<calib_vars, analysis_vars>>

\* get_time / get_time_mut is entered for the next instance of the group:
\* n = 0, the threshold, start = Instant::now().
get_time_enter ==
    /\ pc = "instances"
    /\ ri <= Len(inputs[gi])
    /\ n' = 0
    /\ min_time_measurable' = MinTimeMeasurable(resolution, relative_error)
    /\ start' = clock
    /\ loop_began' = clock
    /\ clone_sum' = 0
    /\ res_used' = res_used \cup {resolution}
    /\ pc' = IF mutating THEN "clone" ELSE "call"
    /\ UNCHANGED <<build_vars, run_vars, resolution, calibrations, results,
                   output, ai, times, gi, total_time, size, ri, end,
                   start_input_clone, end_input_clone, input_cloned, clock,
                   last_call, rep_times>>
    /\ UNCHANGED <<calib_vars, analysis_vars>>

\* What one call may cost: a short call takes nothing that the clock shows,
\* or up to MaxCost ns; a long one takes as much as the threshold of the
\* loop, or one ns more.  No call has to take any time.
Costs ==
    (0..MaxCost) \cup {min_time_measurable, min_time_measurable + 1}

\* if end > min_time_measurable { break; }
ExitTest(elapsed, threshold) == elapsed > threshold

\* Instant::elapsed: now - since, zero if since is later than now.
Elapsed(now, since) == IF now >= since THEN now - since ELSE 0

\* Mutant: the calls are not counted.
CountCall_None(calls) == calls

\* n += 1
CountCall(calls) == calls + 1

\* One iteration of the loop of get_time: the call, which returns or
\* panics, n += 1, the reading of the elapsed time and the exit test.  Of a
\* loop that goes on the first MaxIterations iterations are followed.
get_time ==
    /\ pc = "call"
    /\ n < MaxIterations
    /\ \E panics \in CallPanics(inputs[gi][ri]) :
         IF panics
         THEN \* the panic unwinds through get_time and measure
              /\ last_call' = [target |-> "stored", arg |-> inputs[gi][ri],
                               iter |-> n + 1]
              /\ pc' = "algorithm_panic"
              /\ UNCHANGED <<clock, end, n>>
         ELSE /\ \E d \in Costs :
                   /\ clock' = clock + d
                   /\ end' = Elapsed(clock', start)        \* start.elapsed()
              /\ n' = CountCall(n)
              /\ last_call' = [target |-> "stored", arg |-> inputs[gi][ri],
                               iter |-> n']
              /\ pc' = IF ExitTest(end', min_time_measurable)
                       THEN "exit" ELSE "call"
    /\ UNCHANGED <<build_vars, run_vars, resolution, calibrations, results,
                   output, ai, times, gi, total_time, size, ri,
                   min_time_measurable, start, start_input_clone,
                   end_input_clone, input_cloned, loop_began, clone_sum,
                   res_used, rep_times>>
    /\ UNCHANGED <<calib_vars, analysis_vars>>

\* Mutant: the algorithm is handed the instance stored in the InputSet.
CallMut_Stored(stored, cloned) == [stored |-> ApplyMut(stored), cloned |-> cloned]

\* (f)(input_cloned) in get_time_mut: the algorithm works on the clone; the
\* result is the pair of the instance stored in the InputSet and the clone.
CallMut(stored, cloned) == [stored |-> stored, cloned |-> ApplyMut(cloned)]

\* Mutant: the start is not advanced by the clone's duration.
AdvanceStart_None(s, clone_duration) == s

\* start += end_input_clone
AdvanceStart(s, clone_duration) == s + clone_duration

\* First half of an iteration of get_time_mut: the timed clone of the input
\* (start_input_clone, input.clone(), n += 1, end_input_clone).
get_time_mut_clone ==
    /\ pc = "clone"
    /\ n < MaxIterations
    /\ start_input_clone' = clock
    /\ input_cloned' = Clone(inputs[gi][ri])
    /\ n' = CountCall(n)
    /\ \E c \in 0..MaxCloneCost : clock' = clock + c
    /\ end_input_clone' = Elapsed(clock', start_input_clone')
    /\ clone_sum' = clone_sum + end_input_clone'
    /\ pc' = "call_mut"
    /\ UNCHANGED <<build_vars, run_vars, resolution, calibrations, results,
                   output, ai, times, gi, total_time, size, ri,
                   min_time_measurable, start, end, loop_began, res_used,
                   last_call, rep_times>>
    /\ UNCHANGED <<calib_vars, analysis_vars>>

\* Second half of an iteration of get_time_mut: the call on the clone, the
\* start advanced by the clone's duration, the reading of the elapsed time
\* and the exit test.
get_time_mut ==
    /\ pc = "call_mut"
    /\ LET r == CallMut(inputs[gi][ri], input_cloned)
           on_clone == r.stored = inputs[gi][ri]
       IN \E panics \in AlgorithmPanics(input_cloned) :
            /\ last_call' =
                 [target |-> IF on_clone THEN "clone" ELSE "stored",
                  arg |-> IF on_clone THEN input_cloned ELSE inputs[gi][ri],
                  iter |-> n]
            /\ IF panics
               THEN \* the panic unwinds through get_time_mut and measure_mut
                    /\ pc' = "algorithm_panic"
                    /\ UNCHANGED <<inputs, input_cloned, clock, start, end>>
               ELSE /\ inputs' = [inputs EXCEPT ![gi][ri] = r.stored]
                    /\ input_cloned' = r.cloned
                    /\ \E d \in Costs : clock' = clock + d
                    /\ start' = AdvanceStart(start, end_input_clone)
                    /\ end' = Elapsed(clock', start')    \* start.elapsed()
                    /\ pc' = IF ExitTest(end', min_time_measurable)
                             THEN "exit" ELSE "clone"
    /\ UNCHANGED <<kind, distribution, request, lengths, dist_calls,
                   gen_calls, run_vars, resolution, calibrations, results, output, ai,
                   times, gi, total_time, size, ri, n, min_time_measurable,
                   start_input_clone, end_input_clone, loop_began, clone_sum,
                   res_used, rep_times>>
    /\ UNCHANGED <<calib_vars, analysis_vars>>

\* end / n: Duration / u32 truncates to whole nanoseconds.
MeanTime(elapsed, calls) == elapsed \div calls

\* Mutant: the time replaces the total instead of being added to it.
AddTime_Overwrite(total, time) == time

\* total_time += time
AddTime(total, time) == total + time

\* get_time[_mut] returns end / n and its locals are dropped: no Instant is
\* live, the epoch of the clock is moved to now.  get_time_same_length[_mut]
\* adds the time to total_time and goes on to the next instance.
get_time_return ==
    /\ pc = "exit"
    /\ LET time == MeanTime(end, n) IN
         /\ total_time' = AddTime(total_time, time)
         /\ rep_times' = Append(rep_times, time)
    /\ ri' = ri + 1
    /\ n' = 0
    /\ min_time_measurable' = 0
    /\ start' = 0
    /\ end' = 0
    /\ start_input_clone' = 0
    /\ end_input_clone' = 0
    /\ input_cloned' = NoInput
    /\ loop_began' = 0
    /\ clone_sum' = 0
    /\ clock' = 0
    /\ last_call' = NoCall
    /\ pc' = "instances"
    /\ UNCHANGED <<build_vars, run_vars, resolution, calibrations, results,
                   output, ai, times, gi, size, res_used>>
    /\ UNCHANGED <<calib_vars, analysis_vars>>

\* Mutant: the element is inserted at the front.
Push_Front(vec, x) == <<x>> \o vec

\* times.push(time) / results.push(measurement)
Push(vec, x) == Append(vec, x)

\* Point { size, time: total_time }; group is history: the group it is for.
MakePoint(sz, time, group) == [size |-> sz, time |-> time, group |-> group]

\* get_time_same_length[_mut] returns the Point; get_times[_mut] pushes it
\* and goes on to the next group.  With the feature "debug" the report
\* follows the push, `if _i % (n / 20) == 0 { println!("{}%", _i * 100 / n) }`
\* for the index _i = gi - 1 and n = inputs.inputs.len(): a panic in it drops
\* the Points and the Measurements gathered so far.
get_time_same_length_return ==
    /\ pc = "instances"
    /\ ri > Len(inputs[gi])
    /\ IF reporting /\ ReportPanics(Len(inputs))
       THEN /\ times' = <<>>
            /\ results' = <<>>
            /\ pc' = "report_panic"
            /\ UNCHANGED <<gi, total_time, size, ri, printed>>
       ELSE /\ times' = Push(times, MakePoint(size, total_time, gi))
            /\ printed' =
                 IF reporting /\ (gi - 1) % ReportEvery(Len(inputs)) = 0
                 THEN Append(printed,
                             PercentLine(((gi - 1) * 100) \div Len(inputs)))
                 ELSE printed
            /\ gi' = gi + 1
            /\ total_time' = 0
            /\ size' = 0
            /\ ri' = 0
            /\ pc' = "groups"
            /\ UNCHANGED results
    /\ UNCHANGED <<build_vars, run_vars, resolution, calibrations,
                   output, ai, loop_vars, clock, res_used, last_call,
                   rep_times>>
    /\ UNCHANGED <<calib_vars, measurement, regression, analysed, returned,
                   argument, reporting>>

\* Measurement { algorithm_name: get_algorithm_name(f), measurement: times };
\* alg is history: the algorithm it was measured with.
MakeMeasurement(f, points) ==
    [algorithm_name |-> GetAlgorithmName(f), measurement |-> points, alg |-> f]

\* get_times[_mut] returns the Measurement; measure pushes it and goes on to
\* the next algorithm.
get_times_return ==
    /\ pc = "groups"
    /\ gi > Len(inputs)
    /\ results' = Push(results, MakeMeasurement(algorithms[ai], times))
    /\ ai' = ai + 1
    /\ times' = <<>>
    /\ gi' = 0
    /\ rep_times' = <<>>
    /\ pc' = "algorithms"
    /\ UNCHANGED <<build_vars, run_vars, resolution, calibrations, output,
                   total_time, size, ri, loop_vars, clock, res_used,
                   last_call>>
    /\ UNCHANGED <<calib_vars, analysis_vars>>

\* Measurements { measurements: results, relative_error, resolution }
MakeMeasurements(res_list, re, res) ==
    [measurements |-> res_list, relative_error |-> re, resolution |-> res]

\* measure / measure_mut returns.
measure_return ==
    /\ pc = "algorithms"
    /\ ai > Len(algorithms)
    /\ output' = MakeMeasurements(results, relative_error, resolution)
    /\ pc' = "done"
    /\ UNCHANGED <<build_vars, run_vars, resolution, calibrations, results,
                   ai, times, gi, total_time, size, ri, loop_vars, clock,
                   res_used, last_call, rep_times>>
    /\ UNCHANGED <<calib_vars, analysis_vars>>

\* --------------------------------------------------- analysis of the results
\* Duration::as_micros: the whole microseconds of a time in ns.
NanosPerMicro == 1000
AsMicros(time) == time \div NanosPerMicro

\* ---- Measurement::linear_regression.
\* The sums after the loop over the points.
RECURSIVE RegressionSums(_, _)
RegressionSums(points, acc) ==
    IF points = <<>> THEN acc
    ELSE LET x == F32Int(Head(points).size)
             y == F32Int(AsMicros(Head(points).time))
         IN  RegressionSums(Tail(points),
                 [sum_x |-> F32Int(acc.sum_x + x),
                  sum_y |-> F32Int(acc.sum_y + y),
                  sum_xy |-> F32Int(acc.sum_xy + F32Int(x * y)),
                  sum_xx |-> F32Int(acc.sum_xx + F32Int(x * x)),
                  n |-> F32Int(acc.n + 1)])

NoSums == [sum_x |-> 0, sum_y |-> 0, sum_xy |-> 0, sum_xx |-> 0, n |-> 0]

\* n * sum_xy - sum_x * sum_y
Numerator(s) == F32Int(F32Int(s.n * s.sum_xy) - F32Int(s.sum_x * s.sum_y))

\* n * sum_xx - sum_x * sum_x
Denominator(s) == F32Int(F32Int(s.n * s.sum_xx) - F32Int(s.sum_x * s.sum_x))

\* (slope, intercept), with the denominator the slope was divided by.
LinearRegression(points) ==
    LET s == RegressionSums(points, NoSums)
        slope == F32DivInt(Numerator(s), Denominator(s))
        intercept == F32DivByInt(F32IntSub(s.sum_y, F32MulInt(slope, s.sum_x)),
                                 s.n)
    IN  [slope |-> slope, intercept |-> intercept,
         denominator |-> Denominator(s)]

NoRegression == [slope |-> F32Nan, intercept |-> F32Nan, denominator |-> 0]

\* ---- f32::log2 followed by `as usize` or `as u64`.
\* ln 2, to eight digits.
Ln2 == [num |-> 25469, den |-> 36744]

\* (x as f32).log2() as usize, for an integer x >= 0: log2(0) is -inf and
\* the cast of it is 0.  For v = x as f32 in [2^k, 2^(k+1)) the cast is k,
\* unless the f32 nearest to log2(v) is k + 1 itself: the f32 below k + 1 are
\* 2^(BitLen(k) - F32Mantissa) apart, and log2(v) is nearer to k + 1 than half
\* of that when d = 2^(k+1) - v is below 2^sh * ln 2.
Log2AsUsize(x) ==
    IF x = 0 THEN 0
    ELSE LET v == F32Int(x)
             k == BitLen(v) - 1
             d == 2 ^ k - (v - 2 ^ k)
             sh == k + BitLen(k) - F32Mantissa
             rounds == /\ sh >= 0
                       /\ d < 2 ^ sh
                       /\ d * Ln2.den < 2 ^ sh * Ln2.num
         IN  IF v = 2 ^ k THEN k ELSE IF rounds THEN k + 1 ELSE k

\* Duration::from_micros
FromMicros(micros) == micros * NanosPerMicro

\* ---- Measurement::log_log_scale: the name is cloned, every Point is
\* replaced in its place.
MeasurementLogLogScale(m) ==
    [m EXCEPT !.measurement =
        [j \in 1..Len(m.measurement) |->
            [m.measurement[j] EXCEPT
                !.size = Log2AsUsize(m.measurement[j].size),
                !.time = FromMicros(
                             Log2AsUsize(AsMicros(m.measurement[j].time)))]]]

\* ---- Measurements::log_log_scale
MeasurementsLogLogScale(ms) ==
    [ms EXCEPT !.measurements =
        [j \in 1..Len(ms.measurements) |->
            MeasurementLogLogScale(ms.measurements[j])]]

\* ---- the accessors.  A call returns a value or panics in unwrap().
Panicked == [panic |-> TRUE, value |-> 0]
Returned(v) == [panic |-> FALSE, value |-> v]

\* Iterator::min_by_key: the index of the first of the smallest keys.
MinByKey(keys) ==
    CHOOSE j \in 1..Len(keys) :
        /\ \A i \in 1..Len(keys) : keys[i] >= keys[j]
        /\ \A i \in 1..(j - 1) : keys[i] > keys[j]

\* Iterator::max_by_key: the index of the last of the largest keys.
MaxByKey(keys) ==
    CHOOSE j \in 1..Len(keys) :
        /\ \A i \in 1..Len(keys) : keys[i] <= keys[j]
        /\ \A i \in (j + 1)..Len(keys) : keys[i] < keys[j]

Accessors == {"max_time", "min_time", "max_length", "min_length"}

\* The field an accessor looks at, and the end of the order it looks for.
KeyOf(method, point) ==
    IF method \in {"max_time", "min_time"} THEN point.time ELSE point.size

ByKey(method, keys) ==
    IF method \in {"max_time", "max_length"} THEN MaxByKey(keys)
    ELSE MinByKey(keys)

\* Measurement::max_time, min_time, max_length, min_length
MeasurementAccess(method, m) ==
    LET keys == [j \in 1..Len(m.measurement) |->
                    KeyOf(method, m.measurement[j])]
    IN  IF keys = <<>> THEN Panicked
        ELSE Returned(keys[ByKey(method, keys)])

\* Measurements::max_time, min_time, max_length, min_length: the key of a
\* series is what its accessor returns, which is called on every series.
MeasurementsAccess(method, ms) ==
    LET calls == [j \in 1..Len(ms.measurements) |->
                     MeasurementAccess(method, ms.measurements[j])]
        keys == [j \in 1..Len(calls) |-> calls[j].value]
    IN  IF \E j \in 1..Len(calls) : calls[j].panic THEN Panicked
        ELSE IF keys = <<>> THEN Panicked
        ELSE Returned(keys[ByKey(method, keys)])

\* No method has been called yet.
NoReturn == [method |-> "none", series |-> 0, panic |-> FALSE, value |-> 0]

\* ---------------------------------------------------------- specification
NoOutput == MakeMeasurements(<<>>, Ratio(0, 1), 0)

\* Nothing has been measured or timed yet.
InitMeasure ==
    /\ printed = <<>>
    /\ sum = 0
    /\ sample = 0
    /\ regression = NoRegression
    /\ returned = NoReturn
    /\ mutating = FALSE
    /\ algorithms = <<>>
    /\ relative_error = Ratio(0, 1)
    /\ resolution = 0
    /\ calibrations = 0
    /\ results = <<>>
    /\ output = NoOutput
    /\ ai = 0
    /\ times = <<>>
    /\ gi = 0
    /\ total_time = 0
    /\ size = 0
    /\ ri = 0
    /\ n = 0
    /\ min_time_measurable = 0
    /\ start = 0
    /\ end = 0
    /\ start_input_clone = 0
    /\ end_input_clone = 0
    /\ input_cloned = NoInput
    /\ clock = 0
    /\ loop_began = 0
    /\ clone_sum = 0
    /\ res_used = {}
    /\ last_call = NoCall
    /\ rep_times = <<>>

\* Nothing has been built, measured or timed yet.
InitState ==
    /\ lengths = <<>>
    /\ inputs = <<>>
    /\ dist_calls = 0
    /\ gen_calls = 0
    /\ InitMeasure

\* The same, and no example algorithm is called.
InitRun ==
    /\ argument = <<>>
    /\ reporting = FALSE
    /\ InitState

\* The state before the run, for a builder over one of the distributions.
InitWith(dists) ==
    /\ pc = "start"
    /\ kind \in InputKinds
    /\ distribution \in dists
    /\ request = [n |-> 0, repetitions |-> 0]
    /\ measurement = <<>>
    /\ analysed = NoOutput
    /\ InitRun

\* Uniform::new(min..=max) with 1 <= min <= max, in either generation mode.
Distributions ==
    { [type |-> "Uniform", min |-> lo, max |-> hi, lambda |-> NoLambda,
       gen_type |-> g] :
        lo \in 1..MaxSize, hi \in 1..MaxSize, g \in GenTypes }

\* A run of the whole pipeline: Uniform::new(1..=MaxSize), FixedIntervals.
Init ==
    InitWith({ [type |-> "Uniform", min |-> 1, max |-> MaxSize,
                lambda |-> NoLambda, gen_type |-> "FixedIntervals"] })

Next ==
    \/ build_with_repetitions
    \/ measure
    \/ measure_mut
    \/ get_average_resolution
    \/ get_times
    \/ get_time_same_length
    \/ get_time_enter
    \/ get_time
    \/ get_time_mut_clone
    \/ get_time_mut
    \/ get_time_return
    \/ get_time_same_length_return
    \/ get_times_return
    \/ measure_return

Spec == Init /\ [][Next]_vars

\* The input builder alone, over every distribution of the model.
InitBuild == InitWith({ d \in Distributions : d.min <= d.max })

NextBuild == build_with_repetitions

SpecBuild == InitBuild /\ [][NextBuild]_vars

\* ------------------------------------------------ the size distributions
NoDistribution ==
    [type |-> "none", min |-> 0, max |-> 0, lambda |-> NoLambda,
     gen_type |-> "none"]

dist_unchanged == <<kind, inputs, gen_calls, run_vars, resolution, calibrations,
                    results, output, ai, times, gi, total_time, size, ri,
                    loop_vars, clock, res_used, last_call, rep_times>>

\* Mutant: the range is not checked.
AssertRange_None(lo, hi) == TRUE

\* assert!(!range.is_empty(), ...) for the range lo..=hi
AssertRange(lo, hi) == lo <= hi

\* A constructor is called with lo..=hi; ok tells whether it returns, d is
\* the object it returns.
New(type, lo, hi, ok, d) ==
    /\ pc = "new"
    /\ request' = [n |-> 0, repetitions |-> 0, type |-> type,
                   min |-> lo, max |-> hi, lambda |-> NoLambda]
    /\ IF ok THEN pc' = "ready" /\ distribution' = d
             ELSE pc' = "new_panic" /\ UNCHANGED distribution
    /\ UNCHANGED <<lengths, dist_calls, dist_unchanged>>
    /\ UNCHANGED <<calib_vars, analysis_vars>>

\* Uniform::new(lo..=hi)
Uniform_new ==
    \E lo \in 0..MaxSize, hi \in 0..MaxRange :
        New("Uniform", lo, hi, AssertRange(lo, hi),
            [type |-> "Uniform", min |-> lo, max |-> hi, lambda |-> NoLambda,
             gen_type |-> "FixedIntervals"])

\* Exponential::new(lo..=hi): after the assert, range.end() / range.start()
\* is an integer division, which panics for start = 0.
Exponential_new ==
    \E lo \in 0..MaxSize, hi \in 0..MaxSize :
        New("Exponential", lo, hi, AssertRange(lo, hi) /\ lo # 0,
            [type |-> "Exponential", min |-> lo, max |-> hi,
             lambda |-> IF lo = 0 THEN NoLambda ELSE DefaultLambda(lo, hi),
             gen_type |-> "FixedIntervals"])

\* Reciprocal::new(lo..=hi)
Reciprocal_new ==
    \E lo \in 0..MaxSize, hi \in 0..MaxSize :
        New("Reciprocal", lo, hi, AssertRange(lo, hi),
            [type |-> "Reciprocal", min |-> lo, max |-> hi,
             lambda |-> NoLambda, gen_type |-> "FixedIntervals"])

\* set_gen_type(gen_type) of the three distributions
set_gen_type ==
    /\ pc = "ready"
    /\ \E g \in GenTypes : distribution' = [distribution EXCEPT !.gen_type = g]
    /\ UNCHANGED <<pc, request, lengths, dist_calls, dist_unchanged>>
    /\ UNCHANGED <<calib_vars, analysis_vars>>

\* The values given to set_lambda: c * ln 2 for these c.
Lambdas == { [c |-> c, q |-> 2, d |-> 1] : c \in {-1, 0, 1, 2, MaxExp} }

\* Exponential::set_lambda(lambda): assert!(lambda > 0.0, ...)
set_lambda ==
    /\ pc = "ready"
    /\ distribution.type = "Exponential"
    /\ \E l \in Lambdas :
         /\ request' = [request EXCEPT !.lambda = l]
         /\ IF LambdaIsPositive(l)
            THEN /\ distribution' = [distribution EXCEPT !.lambda = l]
                 /\ UNCHANGED pc
            ELSE /\ pc' = "set_lambda_panic"
                 /\ UNCHANGED distribution
    /\ UNCHANGED <<lengths, dist_calls, dist_unchanged>>
    /\ UNCHANGED <<calib_vars, analysis_vars>>

\* The n given to generate: up to MaxGen for Uniform in FixedIntervals mode.
MaxCount(d) ==
    IF d.gen_type = "Random" THEN MaxN
    ELSE IF d.type = "Uniform" THEN MaxGen
    ELSE MaxN + 1

\* Mutant: n is not checked.
AssertCount_None(cnt) == TRUE

\* assert!(n > 0, ...) of generate
AssertCount(cnt) == cnt > 0

\* Distribution::generate(n)
generate ==
    /\ pc = "ready"
    /\ \E cnt \in 0..MaxCount(distribution) :
         /\ request' = [request EXCEPT !.n = cnt]
         /\ IF AssertCount(cnt)
            THEN \E rnd \in [1..cnt -> Draws(distribution)] :
                 /\ lengths' = Generate(distribution, cnt, rnd)
                 /\ dist_calls' = dist_calls + 1
                 /\ pc' = "generated"
            ELSE /\ pc' = "generate_panic"
                 /\ UNCHANGED <<lengths, dist_calls>>
    /\ UNCHANGED <<distribution, dist_unchanged>>
    /\ UNCHANGED <<calib_vars, analysis_vars>>

InitDist ==
    /\ pc = "new"
    /\ kind = "InputVec"
    /\ distribution = NoDistribution
    /\ request = [n |-> 0, repetitions |-> 0, type |-> "none",
                  min |-> 0, max |-> 0, lambda |-> NoLambda]
    /\ measurement = <<>>
    /\ analysed = NoOutput
    /\ InitRun

NextDist ==
    \/ Uniform_new
    \/ Exponential_new
    \/ Reciprocal_new
    \/ set_gen_type
    \/ set_lambda
    \/ generate

SpecDist == InitDist /\ [][NextDist]_vars

\* ------------------------------------- the clock calibrator, step by step
calib_unchanged == <<build_vars, run_vars, results, output, ai, times, gi,
                     total_time, size, ri, n, min_time_measurable,
                     start_input_clone, end_input_clone, input_cloned,
                     loop_began, clone_sum, res_used, last_call, rep_times,
                     analysis_vars>>

\* get_average_resolution is called: let mut sum = Duration::ZERO;
get_average_resolution_enter ==
    /\ pc = "cal_start"
    /\ sum' = 0
    /\ sample' = 0
    /\ pc' = "cal_loop"
    /\ UNCHANGED <<start, end, clock, resolution, calibrations, calib_unchanged>>

\* for _ in 0..100: get_resolution is called, let start = Instant::now();
\* no Instant taken before is in use, the clock is counted from this one.
get_resolution_enter ==
    /\ pc = "cal_loop"
    /\ sample < Samples
    /\ clock' = 0
    /\ start' = 0
    /\ end' = 0
    /\ pc' = "cal_read"
    /\ UNCHANGED <<sum, sample, resolution, calibrations, calib_unchanged>>

\* One iteration of the loop of get_resolution: let end = start.elapsed();
\* a reading that is not zero is returned and added to sum.
get_resolution ==
    /\ pc = "cal_read"
    /\ \E tick \in 0..MaxSample :
         /\ clock' = clock + tick
         /\ end' = clock' - start
    /\ IF ReadingReturned(end')
       THEN /\ sum' = sum + end'
            /\ sample' = sample + 1
            /\ pc' = "cal_loop"
       ELSE UNCHANGED <<sum, sample, pc>>
    /\ UNCHANGED <<start, resolution, calibrations, calib_unchanged>>

\* The loop is over: sum / 100 is returned.
get_average_resolution_return ==
    /\ pc = "cal_loop"
    /\ sample >= Samples
    /\ resolution' = DivideSum(sum)
    /\ calibrations' = calibrations + 1
    /\ pc' = "cal_done"
    /\ UNCHANGED <<sum, sample, start, end, clock, calib_unchanged>>

InitCalib ==
    /\ pc = "cal_start"
    /\ kind = "InputVec"
    /\ distribution = NoDistribution
    /\ request = [n |-> 0, repetitions |-> 0]
    /\ measurement = <<>>
    /\ analysed = NoOutput
    /\ InitRun

NextCalib ==
    \/ get_average_resolution_enter
    \/ get_resolution_enter
    \/ get_resolution
    \/ get_average_resolution_return

SpecCalib == InitCalib /\ [][NextCalib]_vars

\* ------------------------------------------- the analysis of a Measurement
analysis_unchanged == <<build_vars, run_vars, calib_vars, loop_vars,
                        resolution, calibrations, results, output, ai, times,
                        gi, total_time, size, ri, clock, res_used, last_call,
                        rep_times>>

RegressionSizes == (1..SmallSizes) \cup {LargeSize, LargeSize + 1}

\* The Measurements analysed: up to MaxPoints Points whose times, in whole
\* us, lie on the line a * size + b, but for the last Point, which is e us
\* above it; every time has the same r ns beyond its whole us.
MeasurementsAnalysed ==
    { [j \in 1..Len(sizes) |->
         MakePoint(sizes[j],
                   (a * sizes[j] + b + (IF j = Len(sizes) THEN e ELSE 0))
                       * NanosPerMicro + r,
                   j)] :
      sizes \in UNION {[1..k -> RegressionSizes] : k \in 0..MaxPoints},
      a \in 0..MaxSlope, b \in 0..MaxIntercept, e \in 0..MaxNoise,
      r \in {0, NanosPerMicro - 1} }

\* measurement.linear_regression()
linear_regression ==
    /\ pc = "measured"
    /\ regression' = LinearRegression(measurement)
    /\ pc' = "regressed"
    /\ UNCHANGED <<measurement, analysed, returned, argument, debug_vars,
                   analysis_unchanged>>

InitAnalysis ==
    /\ pc = "measured"
    /\ kind = "InputVec"
    /\ distribution = NoDistribution
    /\ request = [n |-> 0, repetitions |-> 0]
    /\ measurement \in MeasurementsAnalysed
    /\ analysed = NoOutput
    /\ InitRun

NextAnalysis == linear_regression

SpecAnalysis == InitAnalysis /\ [][NextAnalysis]_vars

\* ----------------------------------------- the methods of the result types
results_unchanged == <<measurement, regression, argument, debug_vars,
                       analysis_unchanged>>

\* The Points of the Measurements analysed: sizes 0, 1, a power of two and
\* the largest integer below 2^F32Mantissa; times of no whole us, of a few
\* us, and of one us less than 2^21 us.
PointsAnalysed ==
    { MakePoint(2 ^ 8, 3 * NanosPerMicro + NanosPerMicro - 1, 0),
      MakePoint(1, NanosPerMicro - 1, 0),
      MakePoint(2 ^ F32Mantissa - 1, 2 ^ 3 * NanosPerMicro, 0),
      MakePoint(0, (2 ^ 21 - 1) * NanosPerMicro, 0) }

\* The series analysed: up to MaxSeriesPoints of those Points, measured for
\* the algorithm f.
SeriesAnalysed(f) ==
    { MakeMeasurement(f, points) :
        points \in UNION {[1..k -> PointsAnalysed] : k \in 0..MaxSeriesPoints} }

\* The Measurements analysed: no series, one or two.
AnalysedValues ==
    { MakeMeasurements(res_list, Ratio(1, 1), res) :
        res_list \in {<<>>}
            \cup {<<a>> : a \in SeriesAnalysed(1)}
            \cup {<<a, b>> : a \in SeriesAnalysed(1), b \in SeriesAnalysed(2)},
        res \in {1} }

\* A method of the Measurements analysed, or of its series j, has been called.
Call(method, j, result) ==
    /\ pc = "results"
    /\ returned' = [method |-> method, series |-> j,
                    panic |-> result.panic, value |-> result.value]
    /\ pc' = IF result.panic THEN "unwrap_panic" ELSE "returned"
    /\ UNCHANGED <<analysed, results_unchanged>>

\* measurements.max_time(), and the three other accessors of Measurements
Measurements_max_time ==
    Call("max_time", 0, MeasurementsAccess("max_time", analysed))

Measurements_min_time ==
    Call("min_time", 0, MeasurementsAccess("min_time", analysed))

Measurements_max_length ==
    Call("max_length", 0, MeasurementsAccess("max_length", analysed))

Measurements_min_length ==
    Call("min_length", 0, MeasurementsAccess("min_length", analysed))

\* measurements.measurements[j].max_time(), and the three other accessors of
\* Measurement
Measurement_max_time ==
    \E j \in 1..Len(analysed.measurements) :
        Call("max_time", j,
             MeasurementAccess("max_time", analysed.measurements[j]))

Measurement_min_time ==
    \E j \in 1..Len(analysed.measurements) :
        Call("min_time", j,
             MeasurementAccess("min_time", analysed.measurements[j]))

Measurement_max_length ==
    \E j \in 1..Len(analysed.measurements) :
        Call("max_length", j,
             MeasurementAccess("max_length", analysed.measurements[j]))

Measurement_min_length ==
    \E j \in 1..Len(analysed.measurements) :
        Call("min_length", j,
             MeasurementAccess("min_length", analysed.measurements[j]))

\* measurements.log_log_scale()
Measurements_log_log_scale ==
    Call("log_log_scale", 0, Returned(MeasurementsLogLogScale(analysed)))

\* measurements.measurements[j].log_log_scale()
Measurement_log_log_scale ==
    \E j \in 1..Len(analysed.measurements) :
        Call("log_log_scale", j,
             Returned(MeasurementLogLogScale(analysed.measurements[j])))

InitResults ==
    /\ pc = "results"
    /\ kind = "InputVec"
    /\ distribution = NoDistribution
    /\ request = [n |-> 0, repetitions |-> 0]
    /\ measurement = <<>>
    /\ analysed \in AnalysedValues
    /\ InitRun

NextResults ==
    \/ Measurements_max_time
    \/ Measurements_min_time
    \/ Measurements_max_length
    \/ Measurements_min_length
    \/ Measurement_max_time
    \/ Measurement_min_time
    \/ Measurement_max_length
    \/ Measurement_min_length
    \/ Measurements_log_log_scale
    \/ Measurement_log_log_scale

SpecResults == InitResults /\ [][NextResults]_vars

\* ------------------------------------------------- the example algorithms
algorithms_unchanged == <<measurement, regression, analysed, debug_vars,
                          analysis_unchanged>>

\* An example algorithm has been called with the argument and has returned
\* or panicked.
Run(name, result) ==
    /\ pc = "algorithm"
    /\ returned' = [method |-> name, series |-> 0,
                    panic |-> result.panic, value |-> result.value]
    /\ pc' = IF result.panic THEN "algorithm_panic" ELSE "returned"
    /\ UNCHANGED <<argument, algorithms_unchanged>>

\* The state before an example algorithm is called with one of the args.
InitCall(args) ==
    /\ pc = "algorithm"
    /\ kind = "InputVec"
    /\ distribution = NoDistribution
    /\ request = [n |-> 0, repetitions |-> 0]
    /\ measurement = <<>>
    /\ analysed = NoOutput
    /\ argument \in args
    /\ reporting = FALSE
    /\ InitState

\* ---- period_naive1, period_naive2, period_smart.  A slice s is a sequence:
\* s[j] of the code is s[j + 1] here.
\* period_naive1: the first i from i on, below n, with s[j] = s[j + i] for
\* every j in 0..n - i; n if there is none.
RECURSIVE Naive1From(_, _)
Naive1From(s, i) ==
    IF i >= Len(s) THEN Len(s)
    ELSE IF \A j \in 0..(Len(s) - i - 1) : s[j + 1] = s[j + i + 1] THEN i
    ELSE Naive1From(s, i + 1)

PeriodNaive1(s) == Returned(Naive1From(s, 1))

\* period_naive2: the first i with s[..n - i] == s[i..].
RECURSIVE Naive2From(_, _)
Naive2From(s, i) ==
    IF i >= Len(s) THEN Len(s)
    ELSE IF SubSeq(s, 1, Len(s) - i) = SubSeq(s, i + 1, Len(s)) THEN i
    ELSE Naive2From(s, i + 1)

PeriodNaive2(s) == Returned(Naive2From(s, 1))

\* Mutant: a mismatch drops every border instead of trying the next one.
Fallback_Reset(s, b, x, i) == 0

\* period_smart: while s[x] != s[i] && x > 0 { x = b[x - 1] }
RECURSIVE Fallback(_, _, _, _)
Fallback(s, b, x, i) ==
    IF s[x + 1] # s[i + 1] /\ x > 0 THEN Fallback(s, b, b[x], i) ELSE x

\* period_smart: b after the iterations i.. of for i in 1..size.
RECURSIVE Borders(_, _, _)
Borders(s, b, i) ==
    IF i >= Len(s) THEN b
    ELSE LET x == Fallback(s, b, b[i], i)
         IN  Borders(s,
                     [b EXCEPT ![i + 1] =
                         IF s[x + 1] = s[i + 1] THEN x + 1 ELSE x],
                     i + 1)

\* period_smart: size - b[size - 1]; for an empty s, size - 1 underflows.
PeriodSmart(s) ==
    IF s = <<>> THEN Panicked
    ELSE Returned(Len(s) - Borders(s, [k \in 1..Len(s) |-> 0], 1)[Len(s)])

period_naive1 == Run("period_naive1", PeriodNaive1(argument))

period_naive2 == Run("period_naive2", PeriodNaive2(argument))

period_smart == Run("period_smart", PeriodSmart(argument))

\* The byte strings the period functions are called with.
Strings == UNION {[1..k -> 0..MaxByte] : k \in 0..MaxStr}

InitPeriod == InitCall(Strings)

NextPeriod ==
    \/ period_naive1
    \/ period_naive2
    \/ period_smart

SpecPeriod == InitPeriod /\ [][NextPeriod]_vars

\* ------------------------------------------------------------------ claims
Last(seq) == seq[Len(seq)]

\* The InputSet as build_with_repetitions returned it.
BuiltInputs == BuildInputs(kind, lengths, request.repetitions)

\* The value of the f32 relative_error, as num / 2^exp.
RelativeErrorValue == F32Value(RelativeErrorF32(relative_error))

\* floor((q + r / d) * 2^e), for r < d.
RECURSIVE ScaledQuotient(_, _, _, _)
ScaledQuotient(q, r, e, d) ==
    IF e = 0 THEN q
    ELSE ScaledQuotient(2 * q + (IF 2 * r >= d THEN 1 ELSE 0),
                        (2 * r) % d, e - 1, d)

\* floor(resolution / relative_error), for a relative_error > 0: the
\* elapsed times above it are those above resolution / relative_error.
TicksOverRelativeError ==
    LET re == RelativeErrorValue
    IN  ScaledQuotient(resolution \div re.num, resolution % re.num,
                       re.exp, re.num)

\* C1: when get_time returns after n calls, the elapsed time read at the exit
\* check is strictly greater than resolution * (1/relative_error + 1), the
\* real-valued product.  (elapsed - resolution > resolution / relative_error.)
C1_ExitAboveThreshold ==
    (pc = "exit" /\ ~mutating) => end - resolution > TicksOverRelativeError

\* C2: at the exit of the loop of get_time and of get_time_mut one clock
\* tick is a smaller fraction of the elapsed time than the requested
\* precision: resolution / elapsed < relative_error.
\* (elapsed > resolution / relative_error.)
C2_TickBelowRelativeError == pc = "exit" => end > TicksOverRelativeError

\* C3: in get_time_mut, at every exit check the elapsed value is the clock
\* time passed since the loop began minus the clone durations measured so
\* far, and the value returned is that difference divided by n.
C3_CloneTimeExcluded ==
    [][ /\ pc = "call_mut" => end' = (clock' - loop_began') - clone_sum'
        /\ (pc = "exit" /\ mutating) =>
              Last(rep_times') = ((clock - loop_began) - clone_sum) \div n
      ]_vars

\* C3 witness: a loop of get_time_mut exits after two iterations whose
\* clones both took time.
C3_Witness ==
    /\ pc = "exit"
    /\ mutating
    /\ n >= 2
    /\ clone_sum >= 2
    /\ end > 0

\* C4: in mutating mode the algorithm is handed a clone of the original
\* input taken in the same iteration, never the instance stored in the
\* InputSet, and the InputSet stays as it was built.
C4_FreshCloneEachTrial ==
    (mutating /\ pc \notin {"start", "build_panic", "built"}) =>
        /\ inputs = BuiltInputs
        /\ pc = "call_mut" =>
              /\ input_cloned = inputs[gi][ri]
              /\ input_cloned.state = "generated"
        /\ last_call # NoCall =>
              /\ last_call.target = "clone"
              /\ last_call.arg = inputs[gi][ri]
              /\ last_call.arg.state = "generated"

\* C4 witness: measure_mut has returned after timing two instances.
C4_Witness ==
    /\ pc = "done"
    /\ mutating
    /\ Len(output.measurements) >= 1
    /\ gen_calls >= 2

\* C5: measure and measure_mut return one Measurement per algorithm in the
\* order of the slice, each with one Point per group in the order of the
\* InputSet, with the relative_error given and the resolution every timing
\* loop was handed.
C5_ResultShape ==
    pc = "done" =>
        /\ Len(output.measurements) = Len(algorithms)
        /\ \A k \in 1..Len(algorithms) :
             /\ output.measurements[k].alg = algorithms[k]
             /\ Len(output.measurements[k].measurement) = Len(inputs)
             /\ \A j \in 1..Len(inputs) :
                  output.measurements[k].measurement[j].group = j
        /\ output.relative_error = relative_error
        /\ res_used \subseteq {output.resolution}

\* C5 witness: a run of two algorithms over two groups has returned.
C5_Witness ==
    /\ pc = "done"
    /\ Len(algorithms) = 2
    /\ Len(inputs) = 2
    /\ res_used # {}

\* C6: measure and measure_mut called with relative_error <= 0 fail before
\* the clock is calibrated and before any timing loop is entered, and no
\* Measurements value exists, not even a partial one.
C6_InvalidRelativeErrorFailsFirst ==
    (relative_error.num <= 0 /\ pc \notin {"start", "build_panic", "built"}) =>
        /\ pc = "measure_panic"
        /\ calibrations = 0
        /\ resolution = 0
        /\ res_used = {}
        /\ last_call = NoCall
        /\ results = <<>>
        /\ output = NoOutput

\* C6 witness: measure_mut was called with a negative relative error.
C6_Witness ==
    /\ pc = "measure_panic"
    /\ mutating
    /\ relative_error.num < 0
    /\ Len(algorithms) >= 1

\* C7: the size of every Point is the nominal size of its group,
\* the size the distribution returned and generate_input was given.
C7_PointSizeIsNominal ==
    pc = "done" =>
        \A k \in 1..Len(output.measurements) : \A j \in 1..Len(inputs) :
            output.measurements[k].measurement[j].size = lengths[j]

\* C8: the time of the Point of a group with r instances is the sum of the
\* r values get_time / get_time_mut returned for them, not divided by r.
C8_PointTimeIsSum ==
    (pc = "groups" /\ times # <<>>) =>
        /\ Len(rep_times) = Len(inputs[Last(times).group])
        /\ Last(times).time = SumSeq(rep_times)

\* C8 witness: a Point was pushed for a group of two instances whose mean
\* times are both positive.
C8_Witness ==
    /\ pc = "groups"
    /\ times # <<>>
    /\ Len(rep_times) = 2
    /\ rep_times[1] > 0
    /\ rep_times[2] > 0

\* C9: build_with_repetitions(n, repetitions) with n > 0 and repetitions > 0
\* returns n groups of repetitions instances each, group i generated from the
\* i-th size the distribution returned, in that order.
C9_BuildShape ==
    pc = "built" =>
        /\ Len(lengths) = request.n
        /\ Len(inputs) = request.n
        /\ \A j \in 1..Len(inputs) :
             /\ Len(inputs[j]) = request.repetitions
             /\ \A r \in 1..Len(inputs[j]) :
                  /\ inputs[j][r].payload = lengths[j]
                  /\ inputs[j][r].kind = kind

\* C9 witness: two groups of two instances were built from sizes that are
\* not in ascending order.
C9_Witness ==
    /\ pc = "built"
    /\ request.n = 2
    /\ request.repetitions = 2
    /\ lengths[1] > lengths[2]

\* C10: build_with_repetitions with n = 0 or repetitions = 0 fails before the
\* distribution is asked for sizes and before any instance is generated.
C10_InvalidBuildFailsFirst ==
    (pc # "start" /\ (request.n = 0 \/ request.repetitions = 0)) =>
        /\ pc = "build_panic"
        /\ dist_calls = 0
        /\ gen_calls = 0
        /\ lengths = <<>>
        /\ inputs = <<>>

\* C10 witness: the build was asked for zero repetitions of a positive
\* number of sizes.
C10_Witness ==
    /\ pc = "build_panic"
    /\ request.n > 0
    /\ request.repetitions = 0

\* C11: generate_input is invoked repetitions times for each of the n sizes,
\* n * repetitions times in all, and every instance of the InputSet is the
\* result of a generate_input call of its own, made with the size of its
\* group: no two instances come from the same call.
C11_OwnGenerateCall ==
    pc = "built" =>
        /\ gen_calls = request.n * request.repetitions
        /\ \A j \in 1..Len(inputs) :
             /\ Len(inputs[j]) = request.repetitions
             /\ \A r \in 1..Len(inputs[j]) :
                  /\ inputs[j][r].state = "generated"
                  /\ inputs[j][r].payload = lengths[j]
        /\ { inputs[j][r].id : j \in 1..Len(inputs),
                               r \in 1..request.repetitions } = 1..gen_calls
        /\ \A j1 \in 1..Len(inputs), j2 \in 1..Len(inputs) :
             \A r1 \in 1..Len(inputs[j1]), r2 \in 1..Len(inputs[j2]) :
                <<j1, r1>> # <<j2, r2>> =>
                    inputs[j1][r1].id # inputs[j2][r2].id

\* C11 witness: two groups of two instances were built for the same size, so
\* that all four instances have the same content.
C11_Witness ==
    /\ pc = "built"
    /\ request.n = 2
    /\ request.repetitions = 2
    /\ lengths[1] = lengths[2]
    /\ gen_calls = 4

\* generate has returned the sizes of a distribution of this type.
Generated(type) == pc = "generated" /\ distribution.type = type

SizesWithin(lo, hi) == \A j \in 1..Len(lengths) : lo <= lengths[j] /\ lengths[j] <= hi

\* C12: for Uniform, Exponential and Reciprocal, in FixedIntervals and in
\* Random mode, generate(n) with n > 0 returns exactly n sizes, and
\* generate(0) fails and returns nothing.
C12_GenerateLength ==
    /\ pc = "generated" =>
         /\ request.n > 0
         /\ Len(lengths) = request.n
         /\ dist_calls = 1
    /\ (pc \in {"generated", "generate_panic"} /\ request.n = 0) =>
         /\ pc = "generate_panic"
         /\ lengths = <<>>
         /\ dist_calls = 0

\* C12 witness: a Reciprocal distribution in Random mode returned two sizes.
C12_Witness ==
    /\ Generated("Reciprocal")
    /\ distribution.gen_type = "Random"
    /\ request.n = 2
    /\ Len(lengths) = 2

\* C13: every size that Uniform over min..=max returns, in FixedIntervals and
\* in Random mode, lies in min..=max.
C13_UniformInRange ==
    Generated("Uniform") => SizesWithin(distribution.min, distribution.max)

\* C13 witness: Uniform in Random mode returned a size strictly inside a
\* range that does not start at zero.
C13_Witness ==
    /\ Generated("Uniform")
    /\ distribution.gen_type = "Random"
    /\ distribution.min > 0
    /\ \E j \in 1..Len(lengths) :
         distribution.min < lengths[j] /\ lengths[j] < distribution.max

\* C14: every size that Exponential::new(min..=max), 0 < min <= max, returns
\* with its default lambda lies in min..=max.
C14_ExponentialInRange ==
    (/\ Generated("Exponential")
     /\ distribution.lambda = DefaultLambda(distribution.min, distribution.max))
        => SizesWithin(distribution.min, distribution.max)

\* C15: Uniform in FixedIntervals mode returns min + floor((max - min) * i /
\* (n - 1)) at index i for n >= 2, and [min] for n = 1.
C15_UniformFixedIntervals ==
    (Generated("Uniform") /\ distribution.gen_type = "FixedIntervals") =>
        \A j \in 1..Len(lengths) :
            lengths[j] =
                IF request.n = 1 THEN distribution.min
                ELSE distribution.min
                     + ((distribution.max - distribution.min) * (j - 1))
                       \div (request.n - 1)

\* C16: Exponential inverse_cdf(0) is min and inverse_cdf(1) is max for the
\* default lambda and for every lambda set with set_lambda, so that in
\* FixedIntervals mode the first size is min and, for n >= 2, the last is max.
C16_ExponentialEndpoints ==
    /\ (pc \in {"ready", "generated"} /\ distribution.type = "Exponential") =>
         \A ulp \in {0, 1} :
            /\ ExponentialInverseCdf(distribution, 0, 1, ulp) = distribution.min
            /\ ExponentialInverseCdf(distribution, 1, 1, ulp) = distribution.max
    /\ (Generated("Exponential") /\ distribution.gen_type = "FixedIntervals") =>
         /\ lengths[1] = distribution.min
         /\ request.n >= 2 => lengths[request.n] = distribution.max

\* C16 witness: three sizes were generated in FixedIntervals mode with a
\* lambda set by set_lambda for which the approximation formula applies.
C16_Witness ==
    /\ Generated("Exponential")
    /\ distribution.gen_type = "FixedIntervals"
    /\ request.lambda = distribution.lambda
    /\ LambdaIsPositive(distribution.lambda)
    /\ ~ExactFormulaApplies(distribution)
    /\ request.n = 3
    /\ distribution.min < distribution.max

\* C17: a constructor given an empty range (min > max), and Exponential::new
\* given min = 0, fails: no distribution is produced and nothing is generated.
C17_InvalidRangeFails ==
    (/\ pc # "new"
     /\ \/ request.min > request.max
        \/ request.type = "Exponential" /\ request.min = 0)
        => /\ pc = "new_panic"
           /\ distribution = NoDistribution
           /\ lengths = <<>>
           /\ dist_calls = 0

\* C17 witness: Exponential::new failed on a non-empty range starting at 0.
C17_Witness ==
    /\ pc = "new_panic"
    /\ request.type = "Exponential"
    /\ request.min = 0
    /\ request.max > 0

\* C18: the calibrator takes exactly 100 samples, each the first reading of
\* the time elapsed since the sample began that is not zero, and returns
\* their sum divided by 100, rounded down; what it returns is positive.
C18_Calibration ==
    /\ [](pc = "cal_read" => (end = 0 /\ clock = start))
    /\ [][(pc = "cal_read" /\ pc' = "cal_loop") =>
            /\ end' = clock' - start
            /\ end' > 0
            /\ sum' = sum + end'
            /\ sample' = sample + 1]_vars
    /\ [][sum' # sum => (pc = "cal_read" \/ pc = "cal_start")]_vars
    /\ [](pc = "cal_done" =>
            /\ sample = Samples
            /\ calibrations = 1
            /\ Samples * resolution <= sum
            /\ sum < Samples * (resolution + 1)
            /\ resolution > 0)

\* C18 witness: a calibration returned the rounded-down mean of samples that
\* were not all alike.
C18_Witness ==
    /\ pc = "cal_done"
    /\ sample = Samples
    /\ sum % Samples # 0
    /\ resolution = 1

\* The sizes of the Points of a Measurement.
SizesOf(points) == {points[j].size : j \in 1..Len(points)}

\* The lines the times of the Measurements analysed may lie on.
Slopes == 0..(MaxSlope + MaxNoise)
Intercepts == (0 - MaxNoise * SmallSizes)..(MaxIntercept + MaxNoise)

\* Every Point of the Measurement has time_in_microseconds = a * size + b.
OnLine(points, a, b) ==
    \A j \in 1..Len(points) :
        AsMicros(points[j].time) = a * points[j].size + b

\* C19 as claimed: for a Measurement with at least two distinct sizes whose
\* points satisfy time_in_microseconds = a * size + b exactly,
\* linear_regression returns (slope, intercept) = (a, b).  The code does not:
\* for the sizes 2896 and 2897 on the line 1 * size + 0 the f32 sums lose the
\* difference of the two sizes and (NaN, NaN) is returned.
C19_ExactLineRecovered ==
    \A a \in Slopes, b \in Intercepts :
        (/\ pc = "regressed"
         /\ Cardinality(SizesOf(measurement)) >= 2
         /\ OnLine(measurement, a, b))
        => /\ regression.slope = F32Of(a)
           /\ regression.intercept = F32Of(b)

\* C20 as claimed: for a non-empty Measurement the denominator of
\* linear_regression, n * sum(size^2) - (sum(size))^2, is zero exactly when
\* all points have the same size, the result is then undefined (NaN), and in
\* every other case the denominator is strictly positive.  The code does not:
\* its f32 denominator is zero for the two sizes 2896 and 2897, and is 8 for
\* three points of the size 2897.
C20_DenominatorZeroIffSameSize ==
    (pc = "regressed" /\ measurement # <<>>)
    => IF Cardinality(SizesOf(measurement)) = 1
       THEN /\ regression.denominator = 0
            /\ regression.slope.class = "nan"
            /\ regression.intercept.class = "nan"
       ELSE regression.denominator > 0

\* floor(log2(x)) for an integer x >= 1
FloorLog2(x) == BitLen(x) - 1

\* The Point q is the Point p in log-log scale: floor(log2(size)) for a size
\* of at least 1, floor(log2(time in whole us)) us for a time of at least 1 us.
PointScaled(p, q) ==
    /\ p.size >= 1 => q.size = FloorLog2(p.size)
    /\ AsMicros(p.time) >= 1
         => q.time = FloorLog2(AsMicros(p.time)) * NanosPerMicro

\* The series t is the series m in log-log scale.
SeriesScaled(m, t) ==
    /\ t.algorithm_name = m.algorithm_name
    /\ Len(t.measurement) = Len(m.measurement)
    /\ \A j \in 1..Len(m.measurement) :
         PointScaled(m.measurement[j], t.measurement[j])

\* C21 as claimed: log_log_scale returns a new Measurement with the same
\* algorithm name and as many points in the same order, each point
\* (size, time) replaced by (floor(log2(size)), floor(log2(time in whole us))
\* us), and the Measurements version does so for every series and keeps
\* relative_error and resolution.  The code does not: the logarithm is taken
\* in f32, and the size 2^24 - 1 is mapped to 24, the time of 2^21 - 1 us to
\* 21 us.
C21_LogLogScale ==
    (pc = "returned" /\ returned.method = "log_log_scale")
    => IF returned.series = 0
       THEN /\ returned.value.relative_error = analysed.relative_error
            /\ returned.value.resolution = analysed.resolution
            /\ Len(returned.value.measurements) = Len(analysed.measurements)
            /\ \A j \in 1..Len(analysed.measurements) :
                 SeriesScaled(analysed.measurements[j],
                              returned.value.measurements[j])
       ELSE SeriesScaled(analysed.measurements[returned.series],
                         returned.value)

\* The largest and the smallest of a non-empty set of numbers.
Largest(S) == CHOOSE x \in S : \A y \in S : y <= x
Smallest(S) == CHOOSE x \in S : \A y \in S : y >= x

\* The times or the sizes, as the accessor has it, of the points of a list
\* of series.
KeysOver(method, res_list) ==
    UNION { { KeyOf(method, res_list[j].measurement[i]) :
                i \in 1..Len(res_list[j].measurement) } :
            j \in 1..Len(res_list) }

\* The accessor returned the largest, or the smallest, of those keys.
ReturnedExtreme(res_list) ==
    /\ ~returned.panic
    /\ returned.value =
         IF returned.method \in {"max_time", "max_length"}
         THEN Largest(KeysOver(returned.method, res_list))
         ELSE Smallest(KeysOver(returned.method, res_list))

\* An accessor of the series returned.series, or of the Measurements if that
\* is 0, has been called.
AccessorCalled ==
    pc \in {"returned", "unwrap_panic"} /\ returned.method \in Accessors

AllSeriesNonEmpty ==
    \A j \in 1..Len(analysed.measurements) :
        analysed.measurements[j].measurement # <<>>

\* C23 for one series: for a Measurement with at least one point, max_time /
\* min_time / max_length / min_length return the largest / smallest time /
\* size among its points.
C23_SeriesExtremes ==
    (/\ AccessorCalled
     /\ returned.series > 0
     /\ analysed.measurements[returned.series].measurement # <<>>)
    => ReturnedExtreme(<<analysed.measurements[returned.series]>>)

\* C23: the above, and for a Measurements whose series are all non-empty the
\* same accessors return the largest / smallest value over the points of all
\* series.  A Measurements without any series, which measure returns for an
\* empty slice of algorithms, has only non-empty series, and its accessors
\* panic.
C23_AccessorsExtremes ==
    /\ C23_SeriesExtremes
    /\ (AccessorCalled /\ returned.series = 0 /\ AllSeriesNonEmpty)
       => ReturnedExtreme(analysed.measurements)

\* p is a period of s: s[i] = s[i + p] for every i < len(s) - p.
IsPeriod(s, p) == \A i \in 0..(Len(s) - p - 1) : s[i + 1] = s[i + p + 1]

\* C22: for every non-empty byte string s, period_naive1, period_naive2 and
\* period_smart all return the smallest p in 1..=len(s) that is a period of
\* s, which is len(s) when no smaller one exists.
C22_MinimalPeriod ==
    (pc \in {"returned", "algorithm_panic"} /\ argument # <<>>)
    => /\ ~returned.panic
       /\ returned.value \in 1..Len(argument)
       /\ IsPeriod(argument, returned.value)
       /\ \A p \in 1..(returned.value - 1) : ~IsPeriod(argument, p)

\* C22 witness: period_smart returned the period 4 of a string of 6 bytes,
\* whose longest border, of 2 bytes, is found after a mismatch.
C22_Witness ==
    /\ pc = "returned"
    /\ returned.method = "period_smart"
    /\ argument = <<0, 0, 1, 0, 0, 0>>
    /\ returned.value = 4

\* A timing loop is being executed: between the entry of get_time[_mut] and
\* its return.
InTimingLoop == pc \in {"call", "clone", "call_mut", "exit"}

\* measure[_mut] is past the calibration and has not returned yet.
Measuring == InTimingLoop \/ pc \in {"algorithms", "groups", "instances"}

\* C24: a run of measure is strictly sequential.  The clock is calibrated
\* exactly once before the first algorithm invocation; algorithms are
\* processed in list order, every timing of algorithm k (groups in InputSet
\* order, repetitions of a group in order) being complete before the first
\* invocation of algorithm k+1; and no two timing loops are active at once:
\* a loop is entered only with the locals of the previous one dropped.
C24_StrictlySequential ==
    /\ [](calibrations <= 1)
    /\ []((Measuring \/ last_call # NoCall) => calibrations = 1)
    /\ [](Measuring =>
            /\ Len(results) = ai - 1
            /\ \A k \in 1..Len(results) :
                 /\ results[k].alg = algorithms[k]
                 /\ Len(results[k].measurement) = Len(inputs)
                 /\ \A j \in 1..Len(inputs) :
                      results[k].measurement[j].group = j)
    /\ []((InTimingLoop \/ pc = "instances") =>
            /\ ai \in 1..Len(algorithms)
            /\ gi \in 1..Len(inputs)
            /\ Len(times) = gi - 1
            /\ \A j \in 1..Len(times) : times[j].group = j
            /\ Len(rep_times) = ri - 1)
    /\ [](InTimingLoop => ri \in 1..Len(inputs[gi]))
    /\ []((last_call # NoCall /\ ~mutating) =>
            last_call.arg = inputs[gi][ri])
    /\ [][pc' \in {"call", "clone"} /\ pc \notin {"call", "call_mut"} =>
            /\ pc = "instances"
            /\ n = 0 /\ end = 0 /\ last_call = NoCall
            /\ start' = clock']_vars
    /\ [][ai' # ai => (ai' = ai + 1 /\ pc = "groups" /\ gi = Len(inputs) + 1)
                      \/ pc = "calibrate"]_vars

\* C24 witness: the second algorithm of the slice is being timed on the second
\* instance of a group, the Measurement of the first being complete.
C24_Witness ==
    /\ pc = "call"
    /\ ai = 2
    /\ ri = 2
    /\ Len(results) = 1
    /\ last_call # NoCall

\* C25: every timing loop (get_time, get_time_mut) invokes the algorithm at
\* least once before it first checks the exit condition, so the call counter
\* n is >= 1 whenever elapsed / n is computed, whatever the threshold.
C25_CalledBeforeExitCheck ==
    /\ [](pc = "exit" => (n >= 1 /\ last_call.iter = n))
    /\ [][pc' = "exit" => (last_call'.iter = n' /\ n' >= 1
                           /\ last_call'.target # "none")]_vars
    /\ [][(pc = "exit" /\ pc' # "exit") =>
             (n >= 1 /\ Last(rep_times') = MeanTime(end, n))]_vars

\* C25 witness: a loop of get_time_mut has left at its second exit check,
\* after two calls on clones.
C25_Witness ==
    /\ pc = "exit"
    /\ mutating
    /\ n = 2
    /\ last_call.target = "clone"

\* ------------------------------------------- the run, always scheduled
\* The run is one thread that is always scheduled: whatever step it can take
\* next, it takes.  The vectors are InputVecs, the inputs of the sorting
\* example.
InitLive == Init /\ kind = "InputVec"

SpecLive == InitLive /\ [][Next]_vars /\ WF_vars(Next)

\* A timing loop is at the last of the iterations that are followed.
LoopCutOff == pc \in {"call", "clone"} /\ n >= MaxIterations

\* C26: if the clock keeps advancing while the run executes, each timing loop
\* of get_time and of get_time_mut eventually exits, and therefore measure
\* and measure_mut eventually return for any finite InputSet and algorithm
\* list.  Of a loop that is still going after MaxIterations iterations
\* nothing is said.  A call of the algorithm that panics (quick_sort on
\* <<0, 0>>) ends the run inside the loop: the loop never reaches its exit
\* check and measure_mut never returns.
C26_ReturnsIfClockAdvances ==
    /\ (pc \in {"call", "clone", "call_mut"}) ~> (pc = "exit" \/ LoopCutOff)
    /\ Measuring ~> (pc = "done" \/ LoopCutOff)

\* C27: every Measurements value returned by measure or measure_mut, for any
\* algorithm slice (the empty one included) and any InputSet the builder
\* built, has at least one series, every series has at least one point, and
\* max_time, min_time, max_length and min_length return on it without failure.
C27_ReturnedMeasurementsAccessible ==
    pc = "done" =>
        /\ Len(output.measurements) >= 1
        /\ \A j \in 1..Len(output.measurements) :
             Len(output.measurements[j].measurement) >= 1
        /\ \A method \in Accessors : ~MeasurementsAccess(method, output).panic

\* ------------------------------------------- the builder with the feature
\* "debug": build_with_repetitions prints its progress.
\* InputBuilder::build_with_repetitions(n, repetitions), the crate compiled
\* with or without the feature.  With it "Generating inputs..." is printed
\* after distribution.generate(n), and the report follows the push of each
\* group: a panic in the first report drops the vector with its first group.
build_with_repetitions_debug ==
    /\ pc = "start"
    /\ \E cnt \in 0..MaxDebugN, repetitions \in 0..MaxReps :
         /\ request' = [n |-> cnt, repetitions |-> repetitions]
         /\ IF ~AssertBuild(cnt, repetitions)
            THEN /\ pc' = "build_panic"
                 /\ UNCHANGED <<lengths, inputs, dist_calls, gen_calls, printed>>
            ELSE \E rnd \in [1..cnt -> Draws(distribution)] :
                 /\ lengths' = Generate(distribution, cnt, rnd)
                 /\ dist_calls' = dist_calls + 1
                 /\ IF reporting /\ ReportPanics(cnt)
                    THEN /\ inputs' = <<>>
                         /\ gen_calls' = gen_calls + repetitions
                         /\ printed' = Append(printed, GeneratingLine)
                         /\ pc' = "report_panic"
                    ELSE /\ inputs' = BuildInputs(kind, lengths', repetitions)
                         /\ gen_calls' = gen_calls + Len(lengths') * repetitions
                         /\ printed' =
                              IF reporting
                              THEN Append(printed, GeneratingLine)
                                     \o ProgressLines(cnt)
                              ELSE printed
                         /\ pc' = "built"
    /\ UNCHANGED <<kind, distribution, run_vars, resolution, calibrations,
                   results, output, ai, times, gi, total_time, size, ri,
                   loop_vars, clock, res_used, last_call, rep_times>>
    /\ UNCHANGED <<calib_vars, measurement, regression, analysed, returned,
                   argument, reporting>>

\* The crate compiled with or without the feature.  The run starts at the
\* builder or, with the feature, at measure / measure_mut, given an InputSet
\* of fewer than ProgressSteps groups: the builder returns none with the
\* feature, the crate's own code can make one (InputSet.inputs is
\* pub(crate)).
InitDebug ==
    /\ kind \in InputKinds
    /\ distribution = [type |-> "Uniform", min |-> 1, max |-> MaxSize,
                       lambda |-> NoLambda, gen_type |-> "FixedIntervals"]
    /\ measurement = <<>>
    /\ analysed = NoOutput
    /\ argument = <<>>
    /\ reporting \in BOOLEAN
    /\ \/ /\ pc = "start"
          /\ request = [n |-> 0, repetitions |-> 0]
          /\ InitState
       \/ /\ reporting
          /\ pc = "built"
          /\ \E cnt \in 1..MaxN, repetitions \in 1..MaxReps :
               /\ request = [n |-> cnt, repetitions |-> repetitions]
               /\ lengths = Generate(distribution, cnt,
                                     [j \in 1..cnt |-> [u |-> 0, ulp |-> 0]])
               /\ inputs = BuildInputs(kind, lengths, repetitions)
               /\ dist_calls = 1
               /\ gen_calls = cnt * repetitions
          /\ InitMeasure

NextDebug ==
    \/ build_with_repetitions_debug
    \/ measure
    \/ measure_mut
    \/ get_average_resolution
    \/ get_times
    \/ get_time_same_length
    \/ get_time_enter
    \/ get_time
    \/ get_time_mut_clone
    \/ get_time_mut
    \/ get_time_return
    \/ get_time_same_length_return
    \/ get_times_return
    \/ measure_return

SpecDebug == InitDebug /\ [][NextDebug]_vars

\* C28: with progress reporting enabled build_with_repetitions and the loops
\* of get_times / get_times_mut complete for every n > 0 (n < 20 included)
\* and yield the InputSet and the Measurements they yield with reporting
\* disabled: one group per size of length_distribution, in order, and for
\* every algorithm one Point per group; reporting never makes a run fail.
C28_ReportingNeverFails ==
    /\ pc # "report_panic"
    /\ (AssertBuild(request.n, request.repetitions) /\ pc # "start") =>
          /\ pc # "build_panic"
          /\ inputs = BuiltInputs
    /\ pc = "done" =>
          /\ Len(output.measurements) = Len(algorithms)
          /\ \A j \in 1..Len(algorithms) :
                Len(output.measurements[j].measurement) = Len(inputs)

\* ------------------------------------- examples/sorting: quick_sort
quick_sort == \E checks \in BOOLEAN : Run("quick_sort", QuickSort(argument, checks))

\* The vectors quick_sort is called with.
Vectors == UNION {[1..k -> 0..MaxValue] : k \in 0..MaxVec}

InitSort == InitCall(Vectors)

NextSort == quick_sort

SpecSort == InitSort /\ [][NextSort]_vars

\* v is in non-decreasing order.
IsSorted(v) == \A k \in 1..(Len(v) - 1) : v[k] <= v[k + 1]

\* w is a permutation of v.
IsPermutation(v, w) ==
    /\ Len(v) = Len(w)
    /\ \A x \in 0..MaxValue :
         Cardinality({k \in 1..Len(v) : v[k] = x})
           = Cardinality({k \in 1..Len(w) : w[k] = x})

\* C29: for every vector v of length >= 1 quick_sort returns without failure
\* and leaves v a non-decreasing permutation of its original contents.
C29_QuickSortSorts ==
    (pc \in {"returned", "algorithm_panic"} /\ Len(argument) >= 1)
    => /\ ~returned.panic
       /\ IsSorted(returned.value)
       /\ IsPermutation(argument, returned.value)

\* ---------------------- examples/search: linear_search and binary_search
None == [some |-> FALSE, index |-> 0]
Some(i) == [some |-> TRUE, index |-> i]

\* linear_search(v, val): the first index of val.
LinearSearch(v, val) ==
    IF \E k \in 1..Len(v) : v[k] = val
    THEN [panic |-> FALSE,
          value |-> Some((CHOOSE k \in 1..Len(v) :
                             /\ v[k] = val
                             /\ \A j \in 1..(k - 1) : v[j] # val) - 1)]
    ELSE [panic |-> FALSE, value |-> None]

\* The loop `while low <= high` of binary_search.  v[mid] panics for
\* mid >= v.len(); mid - 1 panics for mid = 0 where overflow is checked and
\* wraps to usize::MAX where it is not.
RECURSIVE BinarySearchFrom(_, _, _, _, _)
BinarySearchFrom(v, val, low, high, checks) ==
    IF ~(low <= high) THEN [panic |-> FALSE, value |-> None]
    ELSE LET mid == (low + high) \div 2
         IN  IF mid >= Len(v) THEN [panic |-> TRUE, value |-> None]
             ELSE IF v[mid + 1] = val THEN [panic |-> FALSE, value |-> Some(mid)]
             ELSE IF v[mid + 1] < val
             THEN BinarySearchFrom(v, val, mid + 1, high, checks)
             ELSE IF mid = 0 /\ checks THEN [panic |-> TRUE, value |-> None]
             ELSE BinarySearchFrom(v, val, low, WrappingSub(mid, 1), checks)

\* binary_search(v, val): low = 0, high = v.len() - 1
BinarySearch(v, val, checks) ==
    IF Len(v) = 0 /\ checks THEN [panic |-> TRUE, value |-> None]
    ELSE BinarySearchFrom(v, val, 0, WrappingSub(Len(v), 1), checks)

linear_search ==
    Run("linear_search", LinearSearch(argument.vector, argument.target))

binary_search ==
    \E checks \in BOOLEAN :
        Run("binary_search",
            BinarySearch(argument.vector, argument.target, checks))

\* The SearchInputs: a sorted vector of elements of 1..MaxValue and a target
\* of 0..MaxValue + 1, which may be below the first and above the last.
SearchInputs ==
    { [vector |-> v, target |-> t] :
        v \in {w \in UNION {[1..k -> 1..MaxValue] : k \in 0..MaxVec} :
                  \A k \in 1..(Len(w) - 1) : w[k] <= w[k + 1]},
        t \in 0..(MaxValue + 1) }

InitSearch == InitCall(SearchInputs)

NextSearch ==
    \/ linear_search
    \/ binary_search

SpecSearch == InitSearch /\ [][NextSearch]_vars

\* C30: for every non-empty sorted slice v and every val binary_search
\* returns without failure, Some(i) with v[i] = val if val occurs in v and
\* None otherwise, so it finds val exactly when linear_search does.
C30_BinarySearchFinds ==
    (/\ pc \in {"returned", "algorithm_panic"}
     /\ returned.method = "binary_search"
     /\ argument.vector # <<>>)
    => /\ ~returned.panic
       /\ returned.value.some
            = (\E k \in 1..Len(argument.vector) :
                   argument.vector[k] = argument.target)
       /\ returned.value.some =>
            /\ returned.value.index < Len(argument.vector)
            /\ argument.vector[returned.value.index + 1] = argument.target
       /\ returned.value.some
            = LinearSearch(argument.vector, argument.target).value.some

====
